---- MODULE Spec2Model ----
(***************************************************************************)
(* Model of BotCrmF5: the work-time accounting rules of the report         *)
(* commands (checkMe.js, checkAll.js, checkAllPast.js) and the broadcast   *)
(* command's control flow.                                                 *)
(*                                                                         *)
(* A date is the number of whole days since 1970-01-01 in local time (a JS *)
(* Date at local midnight).  format(d, 'yyyy-MM-dd') is the triple         *)
(* <<year, month, day>>.  Hours with a fractional part (8.5, h + m/60) are *)
(* kept in minutes: every value the code compares is k/60 with k integer,  *)
(* the thresholds (3, 8.5 and their sums) are exact doubles, and the       *)
(* rounding of h + m/60 is monotone, so the comparisons decide the same.   *)
(***************************************************************************)
EXTENDS Integers, Sequences, FiniteSets, TLC

VARIABLES
    archivo,        \* the command file whose classes are running
    fechaInicio,    \* obtenerDiasLaborables: first day of the range
    fechaFin,       \* obtenerDiasLaborables: last day of the range
    tipoDescanso,   \* rest-rotation type of the employee (1 or 2)
    festivos,       \* holiday list handed to obtenerDiasLaborables
    diasLaborables, \* result of obtenerDiasLaborables
    descanso,       \* result of each file's esSabadoDescanso(fechaInicio, tipoDescanso)
    llamadas,       \* the ServicioFechas methods that have returned
    tabla,          \* time-log rows (TicketActividad joined with TicketActividadProg)
    funCod,         \* obtenerReporteDiario: employee code of the last call
    fechaReporte,   \* obtenerReporteDiario: date of the last call
    reporte,        \* obtenerReporteDiario: the record returned last, <<>> before
    reportesDiarios,    \* daily records collected for a report, in date order
    sabadosExcluidos,   \* count handed to calcularResumenMensual
    festivosExcluidos,  \* count handed to calcularResumenMensual
    resumenSemanal,     \* <<calcularResumenSemanal(reportesDiarios)>>, <<>> before
    resumenMensual,     \* <<calcularResumenMensual(...)>>, <<>> before
    hoy,            \* new Date() when the broadcast command runs
    desfaseUTC,     \* hours the server's local time is ahead of UTC
    llamador,       \* Slack name of the user who sent the command
    miembros,       \* Slack directory: the members users.list returns
    pc,             \* position of the broadcast command's execute
    listaConsultada,    \* whether obtenerTodosFuncionariosActivos has been called
    funcionarios,   \* the list obtenerTodosFuncionariosActivos returned
    indice,         \* position of the for loop in funcionarios
    periodo,        \* <<primerDiaMesAnterior, ultimoDiaMesAnterior>>, <<>> before
    festivosAnio,   \* year handed to obtenerFestivosColombia
    enviados,       \* messages sent, in order: say(...) and chat.postMessage(...)
    usuariosProcesados,
    usuariosConPendientes,
    usuariosAlDia,
    listaUsuariosAlDia,
    listaUsuariosConPendientes,
    bitacora,       \* console log of the loop: how each iteration ended
    solicitud,      \* the HTTP request being handled, <<>> when there is none
    recibidas,      \* number of HTTP requests received
    respuestas,     \* HTTP responses sent, in order
    semanas,        \* <<agruparPorSemanas(...)>>, <<>> before
    horaHoy,        \* hour of the day of new Date() when crm-check-me runs
    evento,         \* the Slack message event being handled, <<>> when none
    eventosRecibidos,
    ejecutados,     \* the handlers whose execute was called, in order
    ecos,           \* how many of the bot's replies came back as events
    invocaciones,   \* ts of an event |-> the locals of the handler running for it
    tablaTareas,    \* the table Tareas: task id |-> its row
    idsFuncionarios,\* locals of ComandoNotificarTareas.execute
    emailsSlack,
    entregados,     \* the channels a message of the running batch reached
    corridas        \* number of batch runs started

varsFechas ==
    <<archivo, fechaInicio, fechaFin, tipoDescanso, festivos, diasLaborables, descanso, llamadas>>

varsDiario == <<tabla, funCod, fechaReporte, reporte>>

varsResumen ==
    <<reportesDiarios, sabadosExcluidos, festivosExcluidos, resumenSemanal, resumenMensual>>

varsEntornoMasivo == <<hoy, desfaseUTC, llamador, miembros>>

varsContadores ==
    <<usuariosProcesados, usuariosConPendientes, usuariosAlDia,
      listaUsuariosAlDia, listaUsuariosConPendientes>>

varsMasivo ==
    <<varsEntornoMasivo, pc, listaConsultada, funcionarios, indice, periodo,
      festivosAnio, enviados, varsContadores, bitacora>>

varsNotificar == <<solicitud, recibidas, respuestas>>

varsSemanas == <<semanas>>

varsCheckMe == <<horaHoy>>

varsDespacho == <<evento, eventosRecibidos, ejecutados, ecos>>

varsHilos == <<invocaciones>>

varsLote == <<tablaTareas, idsFuncionarios, emailsSlack, entregados, corridas>>

varsOtros == <<varsHilos, varsLote>>

varsExtra == <<varsNotificar, varsSemanas, varsCheckMe, varsDespacho, varsOtros>>

vars == <<varsFechas, varsDiario, varsResumen, varsMasivo, varsExtra>>

Archivos == {"checkMe", "checkAll", "checkAllPast"}

----------------------------------------------------------------------------
(* Bounds of the model *)

\* Dates range over PrimerDia .. PrimerDia + NumDias - 1
PrimerAnio == 2024
NumDias == 1200
MaxRango == 7
\* rows in the time-log table
MaxFilas == 3
\* daily records in one list
MaxReportes == 3
\* exclusion counts range over 0..MaxExcluidos
MaxExcluidos == 2

----------------------------------------------------------------------------
(* JS Date and date-fns, as the commands use them *)

EsBisiesto(y) == (y % 4 = 0 /\ y % 100 # 0) \/ y % 400 = 0

\* days from 1970-01-01 to January 1 of year y
DiasAntesDeAnio(y) ==
    365 * (y - 1970) + ((y - 1) \div 4 - (y - 1) \div 100 + (y - 1) \div 400) - 477

DiasDelMes(y, m) ==
    IF m = 2 THEN (IF EsBisiesto(y) THEN 29 ELSE 28)
    ELSE IF m \in {4, 6, 9, 11} THEN 30 ELSE 31

DiasAntesDeMes(y, m) ==
    <<0, 31, 59, 90, 120, 151, 181, 212, 243, 273, 304, 334>>[m]
        + (IF m > 2 /\ EsBisiesto(y) THEN 1 ELSE 0)

\* new Date(y, m - 1, d): months are 1..12 here
NuevaFecha(y, m, d) == DiasAntesDeAnio(y) + DiasAntesDeMes(y, m) + d - 1

getFullYear(f) ==
    CHOOSE y \in (1970 + f \div 366)..(1970 + f \div 365) :
        DiasAntesDeAnio(y) <= f /\ f < DiasAntesDeAnio(y + 1)

\* month 1..12 (JS getMonth() + 1)
getMonth(f) ==
    LET y == getFullYear(f)
        n == f - DiasAntesDeAnio(y)
    IN  CHOOSE m \in 1..12 :
            DiasAntesDeMes(y, m) <= n /\ n < DiasAntesDeMes(y, m) + DiasDelMes(y, m)

getDate(f) ==
    LET y == getFullYear(f)
    IN  f - DiasAntesDeAnio(y) - DiasAntesDeMes(y, getMonth(f)) + 1

\* 0 = Sunday .. 6 = Saturday; 1970-01-01 was a Thursday
getDay(f) == (f + 4) % 7

isSunday(f) == getDay(f) = 0

\* format(f, 'yyyy-MM-dd')
format(f) == <<getFullYear(f), getMonth(f), getDate(f)>>

\* startOfWeek(f, { weekStartsOn: 1 })
startOfWeek(f) == f - ((IF getDay(f) < 1 THEN 7 ELSE 0) + getDay(f) - 1)

\* getWeekYear(f, { weekStartsOn: 1 }): firstWeekContainsDate defaults to 1
getWeekYear(f) ==
    LET y == getFullYear(f)
        startOfNextYear == startOfWeek(NuevaFecha(y + 1, 1, 1))
        startOfThisYear == startOfWeek(NuevaFecha(y, 1, 1))
    IN  IF f >= startOfNextYear THEN y + 1
        ELSE IF f >= startOfThisYear THEN y
        ELSE y - 1

\* startOfWeekYear(f, { weekStartsOn: 1 })
startOfWeekYear(f) == startOfWeek(NuevaFecha(getWeekYear(f), 1, 1))

\* getWeek(f, { weekStartsOn: 1 })
getWeek(f) == (startOfWeek(f) - startOfWeekYear(f)) \div 7 + 1

\* eachDayOfInterval({ start, end }), for start <= end
eachDayOfInterval(ini, fin) == [i \in 1..(fin - ini + 1) |-> ini + i - 1]

\* eachDayOfInterval({ start, end }) of date-fns 3 and later for start > end:
\* the days from start back to end (date-fns 2 throws a RangeError)
eachDayOfIntervalInvertido(ini, fin) == [i \in 1..(ini - fin + 1) |-> ini - i + 1]

\* subDays(fecha, n)
subDays(fecha, n) == fecha - n

\* subMonths(fecha, n): the same day of the month n months before, or that
\* month's last day when it is shorter
subMonths(fecha, n) ==
    LET meses == 12 * getFullYear(fecha) + (getMonth(fecha) - 1) - n
        y == meses \div 12
        m == (meses % 12) + 1
        d == IF getDate(fecha) > DiasDelMes(y, m) THEN DiasDelMes(y, m) ELSE getDate(fecha)
    IN  NuevaFecha(y, m, d)

startOfMonth(fecha) == NuevaFecha(getFullYear(fecha), getMonth(fecha), 1)

\* the last day of the month (at 23:59:59.999)
endOfMonth(fecha) ==
    NuevaFecha(getFullYear(fecha), getMonth(fecha),
               DiasDelMes(getFullYear(fecha), getMonth(fecha)))

\* new Date('yyyy-MM-dd') is midnight UTC of that day; the value is the local
\* wall-clock time in hours since 1970-01-01 00:00 local, for a server whose
\* clock is desfase hours ahead of UTC
NuevaFechaUTC(f, desfase) == 24 * NuevaFecha(f[1], f[2], f[3]) + desfase

----------------------------------------------------------------------------
(* ServicioFechas *)

FestivosMovidos(y) ==
    << <<y, 1, 1>>, <<y, 1, 6>>, <<y, 3, 19>>, <<y, 5, 1>>, <<y, 6, 29>>,
       <<y, 7, 20>>, <<y, 8, 7>>, <<y, 8, 18>>, <<y, 10, 13>>, <<y, 11, 3>>,
       <<y, 11, 17>>, <<y, 12, 8>>, <<y, 12, 25>> >>

FestivosFijos(y) ==
    << <<y, 1, 1>>, <<y, 1, 6>>, <<y, 3, 19>>, <<y, 5, 1>>, <<y, 6, 29>>,
       <<y, 7, 20>>, <<y, 8, 7>>, <<y, 8, 15>>, <<y, 10, 12>>, <<y, 11, 1>>,
       <<y, 11, 11>>, <<y, 12, 8>>, <<y, 12, 25>> >>

obtenerFestivosColombia(arch, y) ==
    IF arch = "checkAll" THEN FestivosFijos(y) ELSE FestivosMovidos(y)

\* Array.prototype.includes
includes(lista, x) == \E i \in 1..Len(lista) : lista[i] = x

\* mutant: the two rotation types swapped
esSabadoDescansoTiposCambiados(fecha, tipo) ==
    IF getDay(fecha) # 6 THEN FALSE
    ELSE LET semanaDelAnio == getWeek(fecha)
         IN  (tipo = 2 /\ semanaDelAnio % 2 = 1) \/ (tipo = 1 /\ semanaDelAnio % 2 = 0)

esSabadoDescansoCheckMe(fecha, tipo) ==
    IF getDay(fecha) # 6 THEN FALSE
    ELSE LET semanaDelAnio == getWeek(fecha)
         IN  (tipo = 1 /\ semanaDelAnio % 2 = 1) \/ (tipo = 2 /\ semanaDelAnio % 2 = 0)

esSabadoDescansoCheckAllPast(fecha, tipo) ==
    IF getDay(fecha) # 6 THEN FALSE
    ELSE LET semanaDelAnio == getWeek(fecha)
         IN  (tipo = 1 /\ semanaDelAnio % 2 # 0) \/ (tipo = 2 /\ semanaDelAnio % 2 = 0)

\* Math.ceil(fecha.getDate() / 7)
esSabadoDescansoCheckAll(fecha, tipo) ==
    IF getDay(fecha) # 6 THEN FALSE
    ELSE LET semanaDelMes == (getDate(fecha) + 6) \div 7
         IN  (tipo = 1 /\ semanaDelMes % 2 = 1) \/ (tipo = 2 /\ semanaDelMes % 2 = 0)

esSabadoDescanso(arch, fecha, tipo) ==
    CASE arch = "checkMe" -> esSabadoDescansoCheckMe(fecha, tipo)
      [] arch = "checkAll" -> esSabadoDescansoCheckAll(fecha, tipo)
      [] arch = "checkAllPast" -> esSabadoDescansoCheckAllPast(fecha, tipo)

\* mutant: the Sunday test left out of the filter
EsLaborableSinDomingo(arch, dia, tipo, fest) ==
    LET fechaStr == format(dia)
        esFestivo == includes(fest, fechaStr)
    IN  ~esFestivo /\ ~esSabadoDescanso(arch, dia, tipo)

EsLaborable(arch, dia, tipo, fest) ==
    LET fechaStr == format(dia)
        esFestivo == includes(fest, fechaStr)
        esDomingo == isSunday(dia)
    IN  ~esFestivo /\ ~esDomingo /\ ~esSabadoDescanso(arch, dia, tipo)

obtenerDiasLaborables(arch, ini, fin, tipo, fest) ==
    LET todosLosDias == eachDayOfInterval(ini, fin)
        filtro(dia) == EsLaborable(arch, dia, tipo, fest)
    IN  SelectSeq(todosLosDias, filtro)

\* the key of the Map of agruparPorSemanas: the Monday of the record's week
ClaveDeSemana(dia) == format(startOfWeek(dia.fechaObj))

\* mutant: a week already in the Map gets a new array with the record alone
AgregarAlMapaReemplaza(mapa, dia) ==
    IF \E i \in 1..Len(mapa) : mapa[i].clave = ClaveDeSemana(dia)
    THEN [i \in 1..Len(mapa) |->
             IF mapa[i].clave = ClaveDeSemana(dia)
             THEN [clave |-> mapa[i].clave, dias |-> <<dia>>]
             ELSE mapa[i]]
    ELSE Append(mapa, [clave |-> ClaveDeSemana(dia), dias |-> <<dia>>])

\* one step of dias.forEach: the Map, in insertion order, with the record
\* pushed to the array of its week
AgregarAlMapa(mapa, dia) ==
    IF \E i \in 1..Len(mapa) : mapa[i].clave = ClaveDeSemana(dia)
    THEN [i \in 1..Len(mapa) |->
             IF mapa[i].clave = ClaveDeSemana(dia)
             THEN [clave |-> mapa[i].clave, dias |-> Append(mapa[i].dias, dia)]
             ELSE mapa[i]]
    ELSE Append(mapa, [clave |-> ClaveDeSemana(dia), dias |-> <<dia>>])

RECURSIVE semanasAgrupadas(_)
semanasAgrupadas(dias) ==
    IF dias = <<>> THEN <<>>
    ELSE AgregarAlMapa(semanasAgrupadas(SubSeq(dias, 1, Len(dias) - 1)), dias[Len(dias)])

\* Array.prototype.sort with (a, b) => a[0].fechaObj - b[0].fechaObj, a stable
\* sort: grupo goes after the groups that do not start later
InsertarOrdenado(ordenadas, grupo) ==
    LET antes == {i \in 1..Len(ordenadas) :
                     ordenadas[i][1].fechaObj <= grupo[1].fechaObj}
        n == Cardinality(antes)
    IN  SubSeq(ordenadas, 1, n) \o <<grupo>> \o SubSeq(ordenadas, n + 1, Len(ordenadas))

RECURSIVE Ordenar(_)
Ordenar(grupos) ==
    IF grupos = <<>> THEN <<>>
    ELSE InsertarOrdenado(Ordenar(SubSeq(grupos, 1, Len(grupos) - 1)), grupos[Len(grupos)])

\* Array.from(semanasAgrupadas.values())
ValoresDelMapa(mapa) == [i \in 1..Len(mapa) |-> mapa[i].dias]

\* mutant: the groups in the order of the Map, without the sort
agruparPorSemanasSinOrdenar(dias) ==
    IF Len(dias) = 0 THEN <<>> ELSE ValoresDelMapa(semanasAgrupadas(dias))

agruparPorSemanas(dias) ==
    IF Len(dias) = 0 THEN <<>> ELSE Ordenar(ValoresDelMapa(semanasAgrupadas(dias)))

----------------------------------------------------------------------------
(* ServicioReporteTiempo *)

\* SUM(col) over the rows, as the pair <<TotalHoras, TotalMinutos>>
RECURSIVE SumaFilas(_)
SumaFilas(filas) ==
    IF filas = {} THEN <<0, 0>>
    ELSE LET r == CHOOSE x \in filas : TRUE
             resto == SumaFilas(filas \ {r})
         IN  <<resto[1] + r.TickActConsHor, resto[2] + r.TickActConsMin>>

\* the SELECT of obtenerReporteDiario: <<>> stands for the row of two NULLs
\* that SUM gives when no row matches
Consulta(cod, fecha) ==
    LET filas == {r \in tabla : r.FunCod = cod /\ r.TickFechaProg = fecha}
    IN  IF filas = {} THEN <<>> ELSE SumaFilas(filas)

\* mutant: the shortfall taken field by field, without borrowing from the hours
FaltanteSinAcarreo(horasRequeridas60, totalHorasDecimal60) ==
    <<(horasRequeridas60 \div 60) - (totalHorasDecimal60 \div 60),
      (horasRequeridas60 % 60) - (totalHorasDecimal60 % 60)>>

\* ` - *Faltan Xh Ym*` as <<X, Y>>, from the required and the logged hours
\* (both times 60); '' is <<>>
Faltante(horasRequeridas60, totalHorasDecimal60) ==
    LET horasFaltantes == (horasRequeridas60 - totalHorasDecimal60) \div 60
        minutosFaltantes == (horasRequeridas60 - totalHorasDecimal60) - 60 * horasFaltantes
    IN  <<horasFaltantes, minutosFaltantes>>

\* mutant: a strict comparison
CumpleEstricto(totalHorasDecimal60, horasRequeridas60) ==
    totalHorasDecimal60 > horasRequeridas60

\* totalHorasDecimal >= horasRequeridas
Cumple(totalHorasDecimal60, horasRequeridas60) ==
    totalHorasDecimal60 >= horasRequeridas60

\* the record obtenerReporteDiario builds from the row of sums; mensaje is
\* kept as its parts: sinRegistro, horas, minutos and faltante
ReporteDiario(fecha, sumas) ==
    LET esSabado == getDay(fecha) = 6
        horasRequeridas60 == IF esSabado THEN 180 ELSE 510
    IN  IF sumas # <<>>
        THEN LET TotalHoras == sumas[1]
                 TotalMinutos == sumas[2]
                 horasRegistradas == TotalHoras + TotalMinutos \div 60
                 minutosRegistrados == TotalMinutos % 60
                 totalHorasDecimal60 == 60 * horasRegistradas + minutosRegistrados
                 cumpleRequerimiento == Cumple(totalHorasDecimal60, horasRequeridas60)
             IN  [ fechaObj |-> fecha,
                   sinRegistro |-> FALSE,
                   faltante |-> IF ~cumpleRequerimiento
                                THEN Faltante(horasRequeridas60, totalHorasDecimal60)
                                ELSE <<>>,
                   horas |-> horasRegistradas,
                   minutos |-> minutosRegistrados,
                   cumpleRequerimiento |-> cumpleRequerimiento,
                   esSabado |-> esSabado ]
        ELSE [ fechaObj |-> fecha,
               sinRegistro |-> TRUE,
               faltante |-> <<horasRequeridas60 \div 60,
                              horasRequeridas60 - 60 * (horasRequeridas60 \div 60)>>,
               horas |-> 0,
               minutos |-> 0,
               cumpleRequerimiento |-> FALSE,
               esSabado |-> esSabado ]

obtenerReporteDiario(cod, fecha) == ReporteDiario(fecha, Consulta(cod, fecha))

RECURSIVE SumaCampo(_, _)
\* dias.reduce((sum, dia) => sum + dia[campo], 0)
SumaCampo(dias, campo) ==
    IF dias = <<>> THEN 0
    ELSE SumaCampo(SubSeq(dias, 1, Len(dias) - 1), campo) + dias[Len(dias)][campo]

\* mutant: every record counted as a full working day
TotalHorasRequeridasSinSabados(diasLaborales, sabadosLaborables) ==
    (diasLaborales + sabadosLaborables) * 510

\* totalHorasRequeridas, times 60
TotalHorasRequeridas(diasLaborales, sabadosLaborables) ==
    diasLaborales * 510 + sabadosLaborables * 180

EsSabadoDe(dia) == dia.esSabado
NoEsSabadoDe(dia) == ~dia.esSabado

\* mutant: the minutes over an hour are dropped instead of carried
calcularResumenSemanalSinAcarreo(diasSemana) ==
    LET totalHoras == SumaCampo(diasSemana, "horas")
        totalMinutos == SumaCampo(diasSemana, "minutos")
        minutosFormateados == totalMinutos % 60
        diasLaborales == Len(SelectSeq(diasSemana, NoEsSabadoDe))
        sabadosLaborables == Len(SelectSeq(diasSemana, EsSabadoDe))
        totalHorasRequeridas60 == TotalHorasRequeridas(diasLaborales, sabadosLaborables)
        horasRequeridasEntero == totalHorasRequeridas60 \div 60
        minutosRequeridos == totalHorasRequeridas60 - 60 * horasRequeridasEntero
        totalHorasDecimal60 == 60 * totalHoras + minutosFormateados
    IN  [ totalHoras |-> totalHoras,
          totalMinutos |-> minutosFormateados,
          horasRequeridas |-> <<horasRequeridasEntero, minutosRequeridos>>,
          cumpleRequerimiento |-> Cumple(totalHorasDecimal60, totalHorasRequeridas60) ]

calcularResumenSemanal(diasSemana) ==
    LET totalHoras == SumaCampo(diasSemana, "horas")
        totalMinutos == SumaCampo(diasSemana, "minutos")
        horasFormateadas == totalHoras + totalMinutos \div 60
        minutosFormateados == totalMinutos % 60
        diasLaborales == Len(SelectSeq(diasSemana, NoEsSabadoDe))
        sabadosLaborables == Len(SelectSeq(diasSemana, EsSabadoDe))
        totalHorasRequeridas60 == TotalHorasRequeridas(diasLaborales, sabadosLaborables)
        horasRequeridasEntero == totalHorasRequeridas60 \div 60
        minutosRequeridos == totalHorasRequeridas60 - 60 * horasRequeridasEntero
        totalHorasDecimal60 == 60 * horasFormateadas + minutosFormateados
    IN  [ totalHoras |-> horasFormateadas,
          totalMinutos |-> minutosFormateados,
          horasRequeridas |-> <<horasRequeridasEntero, minutosRequeridos>>,
          cumpleRequerimiento |-> Cumple(totalHorasDecimal60, totalHorasRequeridas60) ]

\* mutant: the two exclusion counts swapped
calcularResumenMensualCambiado(diasReporte, sabados, fest) ==
    LET r == calcularResumenSemanal(diasReporte)
    IN  [ totalHoras |-> r.totalHoras,
          totalMinutos |-> r.totalMinutos,
          horasRequeridas |-> r.horasRequeridas,
          cumpleRequerimiento |-> r.cumpleRequerimiento,
          sabadosExcluidos |-> fest,
          festivosExcluidos |-> sabados ]

calcularResumenMensual(diasReporte, sabados, fest) ==
    LET r == calcularResumenSemanal(diasReporte)
    IN  [ totalHoras |-> r.totalHoras,
          totalMinutos |-> r.totalMinutos,
          horasRequeridas |-> r.horasRequeridas,
          cumpleRequerimiento |-> r.cumpleRequerimiento,
          sabadosExcluidos |-> sabados,
          festivosExcluidos |-> fest ]

----------------------------------------------------------------------------
(* Specification of the calendar rules: Init draws the inputs, the actions *)
(* apply ServicioFechas to them.                                           *)

PrimerDia == NuevaFecha(PrimerAnio, 12, 1)
Fechas == PrimerDia..(PrimerDia + NumDias - 1)

ListasFestivos(arch, ini) ==
    { <<>>,
      obtenerFestivosColombia(arch, getFullYear(ini)),
      <<format(ini + 1), format(ini + 3), format(ini + 1)>> }

\* the values of the variables a specification leaves alone
ReposoFechas ==
    /\ archivo = "checkMe"
    /\ fechaInicio = PrimerDia
    /\ fechaFin = PrimerDia
    /\ tipoDescanso = 1
    /\ festivos = <<>>
    /\ diasLaborables = <<>>
    /\ descanso = [a \in Archivos |-> FALSE]
    /\ llamadas = {}

ReposoDiario ==
    /\ tabla = {}
    /\ funCod = ""
    /\ fechaReporte = PrimerDia
    /\ reporte = <<>>

ReposoResumen ==
    /\ reportesDiarios = <<>>
    /\ sabadosExcluidos = 0
    /\ festivosExcluidos = 0
    /\ resumenSemanal = <<>>
    /\ resumenMensual = <<>>

ReposoMasivo ==
    /\ hoy = PrimerDia
    /\ desfaseUTC = 0
    /\ llamador = ""
    /\ miembros = {}
    /\ pc = "reposo"
    /\ listaConsultada = FALSE
    /\ funcionarios = <<>>
    /\ indice = 1
    /\ periodo = <<>>
    /\ festivosAnio = 0
    /\ enviados = <<>>
    /\ usuariosProcesados = 0
    /\ usuariosConPendientes = 0
    /\ usuariosAlDia = 0
    /\ listaUsuariosAlDia = <<>>
    /\ listaUsuariosConPendientes = <<>>
    /\ bitacora = <<>>

ReposoNotificar ==
    /\ solicitud = <<>>
    /\ recibidas = 0
    /\ respuestas = <<>>

ReposoSemanas == semanas = <<>>

ReposoCheckMe == horaHoy = 0

ReposoDespacho ==
    /\ evento = <<>>
    /\ eventosRecibidos = 0
    /\ ejecutados = <<>>
    /\ ecos = 0

ReposoHilos == invocaciones = <<>>

ReposoLote ==
    /\ tablaTareas = <<>>
    /\ idsFuncionarios = {}
    /\ emailsSlack = {}
    /\ entregados = {}
    /\ corridas = 0

ReposoOtros == ReposoHilos /\ ReposoLote

ReposoExtra ==
    /\ ReposoNotificar /\ ReposoSemanas /\ ReposoCheckMe /\ ReposoDespacho
    /\ ReposoOtros

InitFechas ==
    /\ archivo \in Archivos
    /\ fechaInicio \in Fechas
    /\ fechaFin \in {fechaInicio, fechaInicio + 1, fechaInicio + MaxRango}
    /\ tipoDescanso \in {1, 2}
    /\ festivos \in ListasFestivos(archivo, fechaInicio)
    /\ diasLaborables = <<>>
    /\ descanso = [a \in Archivos |-> FALSE]
    /\ llamadas = {}
    /\ ReposoDiario
    /\ ReposoResumen
    /\ ReposoMasivo
    /\ ReposoExtra

ObtenerDiasLaborables ==
    /\ "obtenerDiasLaborables" \notin llamadas
    /\ diasLaborables' =
           obtenerDiasLaborables(archivo, fechaInicio, fechaFin, tipoDescanso, festivos)
    /\ llamadas' = llamadas \cup {"obtenerDiasLaborables"}
    /\ UNCHANGED <<archivo, fechaInicio, fechaFin, tipoDescanso, festivos, descanso>>
    /\ UNCHANGED <<varsDiario, varsResumen, varsMasivo, varsExtra>>

EsSabadoDescanso ==
    /\ "esSabadoDescanso" \notin llamadas
    /\ descanso' = [a \in Archivos |-> esSabadoDescanso(a, fechaInicio, tipoDescanso)]
    /\ llamadas' = llamadas \cup {"esSabadoDescanso"}
    /\ UNCHANGED <<archivo, fechaInicio, fechaFin, tipoDescanso, festivos, diasLaborables>>
    /\ UNCHANGED <<varsDiario, varsResumen, varsMasivo, varsExtra>>

NextFechas == ObtenerDiasLaborables \/ EsSabadoDescanso

SpecFechas == InitFechas /\ [][NextFechas]_vars

----------------------------------------------------------------------------
(* Specification of the daily record: the CRM adds time-log rows, the      *)
(* report commands call obtenerReporteDiario(funCod, fecha).               *)

CodigosConsulta == {"10", "20"}

\* a Friday and the Saturday after it
DiasConsulta == {f \in PrimerDia..(PrimerDia + 6) : getDay(f) \in {5, 6}}

\* <<TickActConsHor, TickActConsMin>> of one row
Duraciones == {<<0, 31>>, <<3, 0>>, <<7, 30>>, <<7, 59>>, <<8, 30>>}

InitDiario ==
    /\ ReposoFechas
    /\ ReposoDiario
    /\ ReposoResumen
    /\ ReposoMasivo
    /\ ReposoExtra

RegistrarActividad ==
    /\ Cardinality(tabla) < MaxFilas
    /\ \E cod \in CodigosConsulta, f \in DiasConsulta, d \in Duraciones :
           tabla' = tabla \cup {[ FunCod |-> cod, TickFechaProg |-> f,
                                  TickActConsHor |-> d[1], TickActConsMin |-> d[2] ]}
    /\ UNCHANGED <<funCod, fechaReporte, reporte>>
    /\ UNCHANGED <<varsFechas, varsResumen, varsMasivo, varsExtra>>

ObtenerReporteDiario ==
    /\ \E cod \in CodigosConsulta, f \in DiasConsulta :
           /\ funCod' = cod
           /\ fechaReporte' = f
           /\ reporte' = obtenerReporteDiario(cod, f)
    /\ UNCHANGED tabla
    /\ UNCHANGED <<varsFechas, varsResumen, varsMasivo, varsExtra>>

NextDiario == RegistrarActividad \/ ObtenerReporteDiario

SpecDiario == InitDiario /\ [][NextDiario]_vars

----------------------------------------------------------------------------
(* Specification of the summaries: a report collects the daily records of  *)
(* ascending dates, then calcularResumenSemanal and calcularResumenMensual *)
(* run on the list.                                                        *)

\* a Thursday, Friday, Saturday and the Monday after
DiasResumen == {f \in PrimerDia..(PrimerDia + 10) :
                  f >= startOfWeek(PrimerDia + 6) + 3 /\ f <= startOfWeek(PrimerDia + 6) + 7
                  /\ getDay(f) # 0}

\* rows of sums the SELECT can return; <<>> is the row of NULLs
Sumas == {<<>>, <<7, 30>>, <<8, 30>>, <<9, 45>>, <<2, 59>>, <<3, 0>>}

InitResumen ==
    /\ ReposoFechas
    /\ ReposoDiario
    /\ reportesDiarios = <<>>
    /\ sabadosExcluidos \in 0..MaxExcluidos
    /\ festivosExcluidos \in 0..MaxExcluidos
    /\ resumenSemanal = <<>>
    /\ resumenMensual = <<>>
    /\ ReposoMasivo
    /\ ReposoExtra

AgregarReporte ==
    /\ resumenSemanal = <<>> /\ resumenMensual = <<>>
    /\ Len(reportesDiarios) < MaxReportes
    /\ \E f \in DiasResumen, sumas \in Sumas :
           /\ reportesDiarios # <<>> => f > reportesDiarios[Len(reportesDiarios)].fechaObj
           /\ reportesDiarios' = Append(reportesDiarios, ReporteDiario(f, sumas))
    /\ UNCHANGED <<sabadosExcluidos, festivosExcluidos, resumenSemanal, resumenMensual>>
    /\ UNCHANGED <<varsFechas, varsDiario, varsMasivo, varsExtra>>

CalcularResumenSemanal ==
    /\ resumenSemanal = <<>>
    /\ resumenSemanal' = <<calcularResumenSemanal(reportesDiarios)>>
    /\ UNCHANGED <<reportesDiarios, sabadosExcluidos, festivosExcluidos, resumenMensual>>
    /\ UNCHANGED <<varsFechas, varsDiario, varsMasivo, varsExtra>>

CalcularResumenMensual ==
    /\ resumenMensual = <<>>
    /\ resumenMensual' =
           <<calcularResumenMensual(reportesDiarios, sabadosExcluidos, festivosExcluidos)>>
    /\ UNCHANGED <<reportesDiarios, sabadosExcluidos, festivosExcluidos, resumenSemanal>>
    /\ UNCHANGED <<varsFechas, varsDiario, varsMasivo, varsExtra>>

NextResumen == AgregarReporte \/ CalcularResumenSemanal \/ CalcularResumenMensual

SpecResumen == InitResumen /\ [][NextResumen]_vars

\* the calculations are synchronous: once called they return
SpecResumenJusto == SpecResumen /\ WF_vars(NextResumen)

----------------------------------------------------------------------------
(* ServicioUsuario and ComandoReporteMensualMasivoPast of checkAll.js and  *)
(* checkAllPast.js: the broadcast commands crm-check-all-admin and         *)
(* crm-check-all-admin-past.                                               *)

FUNCIONARIOS_AUTORIZADOS == {"LUDWINGV", "KARLAC", "10", "11", "8"}

\* mutant: every employee code is let through
tienePermisosCualquiera(cod) == TRUE

tienePermisosAdministrador(cod) == cod \in FUNCIONARIOS_AUTORIZADOS

\* String.prototype.toLowerCase on the strings of the model: the only one
\* with an upper-case letter is the alias "Luis"
toLowerCase(texto) == IF texto = "Luis" THEN "luis" ELSE texto

\* the table Funcionarios, in the order the SELECT returns its rows
TablaFuncionarios ==
    << [FunCod |-> "10", TipoDescanso |-> 1, FunDirEmail |-> "ludwing", FunEst |-> "A"],
       [FunCod |-> "20", TipoDescanso |-> 2, FunDirEmail |-> "ana", FunEst |-> "A"],
       [FunCod |-> "8", TipoDescanso |-> 1, FunDirEmail |-> "karla", FunEst |-> "I"],
       [FunCod |-> "40", TipoDescanso |-> 0, FunDirEmail |-> "nuevo", FunEst |-> "A"],
       [FunCod |-> "50", TipoDescanso |-> 2, FunDirEmail |-> "remoto", FunEst |-> "A"],
       [FunCod |-> "30", TipoDescanso |-> 1, FunDirEmail |-> "Luis", FunEst |-> "A"] >>

\* the members of the Slack workspace
DirectorioSlack ==
    { [name |-> "ludwing", id |-> "U10", real_name |-> "Ludwing V"],
      [name |-> "ana", id |-> "U20", real_name |-> "Ana"],
      [name |-> "luis", id |-> "U30", real_name |-> ""],
      [name |-> "karla", id |-> "U08", real_name |-> "Karla C"],
      [name |-> "nuevo", id |-> "U40", real_name |-> "Nuevo"],
      [name |-> "externo", id |-> "U99", real_name |-> "Externo"] }

\* an employee who may or may not have joined the workspace
MiembroRemoto == [name |-> "remoto", id |-> "U50", real_name |-> "Remoto"]

EsActivo(f) == f.FunEst = "A"
TipoDescansoValido(f) == f.TipoDescanso = 1 \/ f.TipoDescanso = 2

\* SELECT FunCod FROM Funcionarios WHERE FunEst = 'A' AND FunDirEmail = @username
ConsultaFunCod(username) ==
    LET EsDelUsuario(f) == f.FunEst = "A" /\ f.FunDirEmail = username
    IN  SelectSeq(TablaFuncionarios, EsDelUsuario)

\* obtenerTodosFuncionariosActivos, once its query has returned
obtenerTodosFuncionariosActivos ==
    LET validos == SelectSeq(SelectSeq(TablaFuncionarios, EsActivo), TipoDescansoValido)
    IN  [i \in 1..Len(validos) |->
            [ funCod |-> validos[i].FunCod,
              tipoDescanso |-> validos[i].TipoDescanso,
              username |-> validos[i].FunDirEmail ]]

\* obtenerInformacionUsuarioPorUsername, once users.list has returned: the
\* set holds the member found, or nothing
obtenerInformacionUsuarioPorUsername(username) ==
    {m \in miembros : m.name = toLowerCase(username)}

\* real_name || name || 'Usuario'
NombreUsuario(userInfo) ==
    IF userInfo.real_name # "" THEN userInfo.real_name
    ELSE IF userInfo.name # "" THEN userInfo.name ELSE "Usuario"

\* the Saturdays of [ini, fin] that are rest Saturdays for the employee
contarSabadosExcluidos(arch, ini, fin, tipo) ==
    Cardinality({d \in ini..fin : getDay(d) = 6 /\ esSabadoDescanso(arch, d, tipo)})

\* festivos.filter(f => new Date(f) >= ini && new Date(f) <= fin).length, with
\* ini at 00:00 and fin at 23:59:59.999 local time
contarFestivosExcluidos(fest, ini, fin, desfase) ==
    Cardinality({i \in 1..Len(fest) :
                    /\ NuevaFechaUTC(fest[i], desfase) >= 24 * ini
                    /\ NuevaFechaUTC(fest[i], desfase) <= 24 * fin + 23})

\* the daily records of the period, for the days of diasLab
ReportesDelPeriodo(cod, diasLab) ==
    [i \in 1..Len(diasLab) |-> obtenerReporteDiario(cod, diasLab[i])]

\* tienePendientes of checkAll.js
TienePendientes(reportes) ==
    \E i \in 1..Len(reportes) : ~reportes[i].cumpleRequerimiento

MensajeSay(tipo, datos) == [canal |-> "say", tipo |-> tipo, datos |-> datos]

\* mutant: the message tells whether an employee record was found
construirMensajeSinPermisosConMotivo ==
    MensajeSay("denegado", <<Len(ConsultaFunCod(llamador))>>)

\* ConstructorMensajesSlack.construirMensajeSinPermisos(): it takes no
\* argument and returns the same two blocks at both places it is called
construirMensajeSinPermisos == MensajeSay("denegado", <<>>)

----------------------------------------------------------------------------
(* Specification of the broadcast commands: an administrator or another    *)
(* Slack user sends the command; Slack and the database may fail at every  *)
(* request.                                                                *)

\* a day in November, one in January (the month before is in another year)
\* and a March 31 (February has no day 31)
HoyPosibles ==
    { NuevaFecha(PrimerAnio + 1, 11, 5), NuevaFecha(PrimerAnio + 2, 1, 10),
      NuevaFecha(PrimerAnio + 1, 3, 31) }

Llamadores == {"ludwing", "ana", "karla", "externo"}

\* what an employee logged in the CRM
Perfiles == {"completo", "sinRegistro", "compensado"}

CodigosConPerfil == {"20", "30"}

\* time-log rows of an employee over the days of dias: "completo" logs the
\* required time every day, "compensado" logs one hour on the 10th and twelve
\* hours on the other weekdays, "sinRegistro" logs nothing
FilasDePerfil(cod, perfil, dias) ==
    IF perfil = "sinRegistro" THEN {}
    ELSE { [ FunCod |-> cod, TickFechaProg |-> f,
             TickActConsHor |-> IF perfil = "compensado"
                                THEN (IF getDate(f) = 10 THEN 1
                                      ELSE IF getDay(f) = 6 THEN 3 ELSE 12)
                                ELSE (IF getDay(f) = 6 THEN 3 ELSE 8),
             TickActConsMin |-> IF perfil = "compensado" \/ getDay(f) = 6 THEN 0 ELSE 30 ]
           : f \in {d \in dias : ~isSunday(d)} }

InitMasivo ==
    /\ archivo \in {"checkAll", "checkAllPast"}
    /\ fechaInicio = PrimerDia
    /\ fechaFin = PrimerDia
    /\ tipoDescanso = 1
    /\ festivos = <<>>
    /\ diasLaborables = <<>>
    /\ descanso = [a \in Archivos |-> FALSE]
    /\ llamadas = {}
    /\ hoy \in HoyPosibles
    /\ desfaseUTC \in {-5, 0}
    /\ llamador \in Llamadores
    /\ miembros \in {DirectorioSlack, DirectorioSlack \cup {MiembroRemoto}}
    /\ \E perfiles \in [CodigosConPerfil -> Perfiles] :
           tabla = FilasDePerfil("10", "completo", startOfMonth(subMonths(hoy, 1))..hoy)
                   \cup UNION { FilasDePerfil(c, perfiles[c],
                                              startOfMonth(subMonths(hoy, 1))..hoy)
                                : c \in CodigosConPerfil }
    /\ funCod = ""
    /\ fechaReporte = PrimerDia
    /\ reporte = <<>>
    /\ ReposoResumen
    /\ pc = "inicio"
    /\ listaConsultada = FALSE
    /\ funcionarios = <<>>
    /\ indice = 1
    /\ periodo = <<>>
    /\ festivosAnio = 0
    /\ enviados = <<>>
    /\ usuariosProcesados = 0
    /\ usuariosConPendientes = 0
    /\ usuariosAlDia = 0
    /\ listaUsuariosAlDia = <<>>
    /\ listaUsuariosConPendientes = <<>>
    /\ bitacora = <<>>
    /\ ReposoExtra

\* execute up to the for loop: the permission check, the employee list, the
\* period and the start message.  usersInfoOk, consultaOk and listaOk tell
\* whether users.info, the FunCod query and the employee query succeed.
Iniciar ==
    /\ pc = "inicio"
    /\ \E usersInfoOk \in BOOLEAN, consultaOk \in BOOLEAN, listaOk \in BOOLEAN :
         LET recordset == ConsultaFunCod(llamador)
             primerDiaMesAnterior == startOfMonth(subMonths(hoy, 1))
             ultimoDiaMesAnterior == endOfMonth(subMonths(hoy, 1))
             lista == obtenerTodosFuncionariosActivos
         IN  IF ~usersInfoOk
             THEN /\ enviados' = Append(enviados, MensajeSay("error", <<"users.info">>))
                  /\ pc' = "fin"
                  /\ UNCHANGED <<listaConsultada, funcionarios, periodo, festivosAnio>>
             ELSE IF ~consultaOk
             THEN /\ enviados' = Append(enviados, MensajeSay("error", <<"query">>))
                  /\ pc' = "fin"
                  /\ UNCHANGED <<listaConsultada, funcionarios, periodo, festivosAnio>>
             ELSE IF Len(recordset) = 0 \/ ~tienePermisosAdministrador(recordset[1].FunCod)
             THEN /\ enviados' = Append(enviados, construirMensajeSinPermisos)
                  /\ pc' = "fin"
                  /\ UNCHANGED <<listaConsultada, funcionarios, periodo, festivosAnio>>
             ELSE IF ~listaOk
             THEN /\ listaConsultada' = TRUE
                  /\ enviados' = Append(enviados, MensajeSay("error", <<"query">>))
                  /\ pc' = "fin"
                  /\ UNCHANGED <<funcionarios, periodo, festivosAnio>>
             ELSE /\ listaConsultada' = TRUE
                  /\ funcionarios' = lista
                  /\ periodo' = <<primerDiaMesAnterior, ultimoDiaMesAnterior>>
                  /\ festivosAnio' = getFullYear(primerDiaMesAnterior)
                  /\ enviados' = Append(enviados,
                         MensajeSay("inicio",
                                    <<getFullYear(primerDiaMesAnterior),
                                      getMonth(primerDiaMesAnterior), Len(lista)>>))
                  /\ pc' = "bucle"
    /\ UNCHANGED <<indice, varsContadores, bitacora, varsEntornoMasivo>>
    /\ UNCHANGED <<varsFechas, varsDiario, varsResumen, varsExtra>>

\* mutant: an iteration whose exception reaches the catch of execute
ProcesarFuncionarioSinCatch ==
    /\ pc = "bucle"
    /\ indice <= Len(funcionarios)
    /\ enviados' = Append(enviados, MensajeSay("error", <<"query">>))
    /\ pc' = "fin"
    /\ UNCHANGED <<indice, listaConsultada, funcionarios, periodo, festivosAnio,
                   varsContadores, bitacora, varsEntornoMasivo>>
    /\ UNCHANGED <<varsFechas, varsDiario, varsResumen, varsExtra>>

\* one iteration of the for loop.  falla names the request that fails in
\* this iteration, if any: users.list, a query of obtenerReporteDiario or
\* chat.postMessage.
ProcesarFuncionario ==
    /\ pc = "bucle"
    /\ indice <= Len(funcionarios)
    /\ indice' = indice + 1
    /\ \E falla \in {"ninguna", "users.list", "query", "chat.postMessage"} :
         LET funcionario == funcionarios[indice]
             encontrados == IF falla = "users.list" THEN {}
                            ELSE obtenerInformacionUsuarioPorUsername(funcionario.username)
             userInfo == CHOOSE m \in encontrados : TRUE
             nombreUsuario == NombreUsuario(userInfo)
             fest == obtenerFestivosColombia(archivo, festivosAnio)
             diasLab == obtenerDiasLaborables(archivo, periodo[1], periodo[2],
                                              funcionario.tipoDescanso, fest)
             sabados == contarSabadosExcluidos(archivo, periodo[1], periodo[2],
                                               funcionario.tipoDescanso)
             nFestivos == contarFestivosExcluidos(fest, periodo[1], periodo[2], desfaseUTC)
             reportes == ReportesDelPeriodo(funcionario.funCod, diasLab)
             resumen == calcularResumenMensual(reportes, sabados, nFestivos)
             alDia == IF archivo = "checkAll" THEN ~TienePendientes(reportes)
                      ELSE resumen.cumpleRequerimiento
             mensaje == [ canal |-> userInfo.id,
                          tipo |-> "reporte",
                          datos |-> << [ nombreUsuario |-> nombreUsuario,
                                         funCod |-> funcionario.funCod,
                                         tipoDescanso |-> funcionario.tipoDescanso,
                                         fechaInicio |-> periodo[1],
                                         fechaFin |-> periodo[2],
                                         sabadosExcluidos |-> sabados,
                                         festivosExcluidos |-> nFestivos,
                                         dias |-> reportes,
                                         resumenMensual |-> resumen ] >> ]
             Anotar(resultado) ==
                 bitacora' = Append(bitacora, [ funCod |-> funcionario.funCod,
                                                tipoDescanso |-> funcionario.tipoDescanso,
                                                resultado |-> resultado ])
         IN  IF encontrados = {}
             THEN /\ Anotar("sinUsuarioSlack")
                  /\ UNCHANGED <<enviados, varsContadores>>
             ELSE IF falla = "query" /\ Len(diasLab) > 0
             THEN /\ Anotar("error")
                  /\ UNCHANGED <<enviados, varsContadores>>
             ELSE IF alDia
             THEN /\ Anotar("alDia")
                  /\ usuariosAlDia' = usuariosAlDia + 1
                  /\ listaUsuariosAlDia' =
                         IF archivo = "checkAllPast"
                         THEN Append(listaUsuariosAlDia, nombreUsuario)
                         ELSE listaUsuariosAlDia
                  /\ UNCHANGED <<enviados, usuariosProcesados, usuariosConPendientes,
                                 listaUsuariosConPendientes>>
             ELSE /\ usuariosConPendientes' = usuariosConPendientes + 1
                  /\ listaUsuariosConPendientes' =
                         IF archivo = "checkAllPast"
                         THEN Append(listaUsuariosConPendientes,
                                     [ nombreUsuario |-> nombreUsuario,
                                       totalHoras |-> resumen.totalHoras,
                                       totalMinutos |-> resumen.totalMinutos,
                                       horasRequeridas |-> resumen.horasRequeridas ])
                         ELSE listaUsuariosConPendientes
                  /\ UNCHANGED <<usuariosAlDia, listaUsuariosAlDia>>
                  /\ IF falla = "chat.postMessage"
                     THEN /\ Anotar("errorEnvio")
                          /\ UNCHANGED <<enviados, usuariosProcesados>>
                     ELSE /\ Anotar("enviado")
                          /\ enviados' = Append(enviados, mensaje)
                          /\ usuariosProcesados' =
                                 IF archivo = "checkAll" THEN usuariosProcesados + 1
                                 ELSE usuariosProcesados
    /\ UNCHANGED <<pc, listaConsultada, funcionarios, periodo, festivosAnio,
                   varsEntornoMasivo>>
    /\ UNCHANGED <<varsFechas, varsDiario, varsResumen, varsExtra>>

\* the execution summary, after the loop
EnviarResumen ==
    /\ pc = "bucle"
    /\ indice > Len(funcionarios)
    /\ enviados' = Append(enviados,
           MensajeSay("resumen",
               IF archivo = "checkAll"
               THEN << [ total |-> Len(funcionarios),
                         procesados |-> usuariosProcesados,
                         alDia |-> usuariosAlDia,
                         conPendientes |-> usuariosConPendientes ] >>
               ELSE << [ total |-> Len(funcionarios),
                         conPendientes |-> usuariosConPendientes,
                         alDia |-> usuariosAlDia,
                         listaConPendientes |-> listaUsuariosConPendientes,
                         listaAlDia |-> listaUsuariosAlDia ] >>))
    /\ pc' = "fin"
    /\ UNCHANGED <<listaConsultada, funcionarios, indice, periodo, festivosAnio,
                   varsContadores, bitacora, varsEntornoMasivo>>
    /\ UNCHANGED <<varsFechas, varsDiario, varsResumen, varsExtra>>

NextMasivo == Iniciar \/ ProcesarFuncionario \/ EnviarResumen

SpecMasivo == InitMasivo /\ [][NextMasivo]_vars

----------------------------------------------------------------------------
(* notifyTasks.js and the endpoint POST /api/notificar-tareas of app.js.   *)
(* null is the empty string; a result or error text is a tuple that starts *)
(* with the fixed part of the text and goes on with the values it embeds.  *)

MaxSolicitudes == 2

\* the table Tareas
TablaTareas ==
    { [TarSec |-> 1, FunCod |-> "10", SubFunCodTar |-> "20"],
      [TarSec |-> 2, FunCod |-> "30", SubFunCodTar |-> ""],
      [TarSec |-> 3, FunCod |-> "50", SubFunCodTar |-> "8"] }

\* FunNom of the table Funcionarios, '' when the code has no row
FunNom(cod) ==
    CASE cod = "10" -> "Ludwing V "
      [] cod = "20" -> "Ana"
      [] cod = "30" -> "Luis"
      [] cod = "8" -> "Karla C"
      [] cod = "50" -> "Remoto"
      [] OTHER -> ""

\* String.prototype.trim on the names of the model
trim(texto) == IF texto = "Ludwing V " THEN "Ludwing V" ELSE texto

\* ServicioNotificaciones.obtenerTareaPorId, once its query has returned: the
\* rows found
obtenerTareaPorId(tarSec) == {t \in TablaTareas : t.TarSec = tarSec}

\* mutant: the alias of any employee, active or not
obtenerUsernameSinEstado(cod) ==
    LET EsElFuncionario(f) == f.FunCod = cod
        filas == SelectSeq(TablaFuncionarios, EsElFuncionario)
    IN  IF cod = "" THEN ""
        ELSE IF Len(filas) > 0 THEN filas[1].FunDirEmail ELSE ""

\* ServicioNotificaciones.obtenerUsernameDeFuncionario, once its query has
\* returned
obtenerUsernameDeFuncionario(cod) ==
    LET EsElFuncionario(f) == f.FunCod = cod /\ f.FunEst = "A" /\ f.FunDirEmail # ""
        filas == SelectSeq(TablaFuncionarios, EsElFuncionario)
    IN  IF cod = "" THEN ""
        ELSE IF Len(filas) > 0 THEN filas[1].FunDirEmail ELSE ""

\* ServicioNotificaciones.obtenerNombreDeFuncionario; consultaOk tells whether
\* its query succeeds
obtenerNombreDeFuncionario(cod, consultaOk) ==
    IF cod = "" THEN "Un usuario"
    ELSE IF ~consultaOk THEN "Un usuario"
    ELSE IF FunNom(cod) # "" THEN trim(FunNom(cod)) ELSE "Un usuario"

\* ServicioSlack.obtenerIdUsuarioPorUsername; listaOk tells whether users.list
\* succeeds
obtenerIdUsuarioPorUsername(username, listaOk) ==
    LET encontrados == {m \in miembros : m.name = toLowerCase(username)}
    IN  IF username = "" THEN ""
        ELSE IF listaOk /\ encontrados # {}
             THEN (CHOOSE m \in encontrados : TRUE).id
             ELSE ""

\* mutant: the two kinds of notification swapped
targetFunCodCambiado(vaDirigidoA, tarea) ==
    IF vaDirigidoA = "NotificarAsignado" THEN tarea.FunCod ELSE tarea.SubFunCodTar

\* targetFunCod of execute, for a valid vaDirigidoA
targetFunCod(vaDirigidoA, tarea) ==
    IF vaDirigidoA = "NotificarAsignado" THEN tarea.SubFunCodTar ELSE tarea.FunCod

Retorna(valor, mensajes) == [lanza |-> FALSE, valor |-> valor, mensajes |-> mensajes]
Lanza(mensaje) == [lanza |-> TRUE, valor |-> mensaje, mensajes |-> <<>>]

\* NotifyTasksFunction.execute(vaDirigidoA, tarSec): what it returns or
\* throws and the Slack messages it sends.  ok tells, for each request to the
\* database or to Slack, whether it succeeds.
execute(vaDirigidoA, tarSec, ok) ==
    LET filas == obtenerTareaPorId(tarSec)
        tarea == CHOOSE t \in filas : TRUE
        target == targetFunCod(vaDirigidoA, tarea)
        nombre == obtenerNombreDeFuncionario(
                      IF vaDirigidoA = "NotificarAsignado"
                      THEN tarea.FunCod ELSE tarea.SubFunCodTar, ok.nombre)
        usernameSlack == obtenerUsernameDeFuncionario(target)
        slackUserId == obtenerIdUsuarioPorUsername(usernameSlack, ok.lista)
        mensaje == [ canal |-> slackUserId, tipo |-> vaDirigidoA,
                     datos |-> <<nombre, tarSec>> ]
    IN  IF ~ok.tarea
        THEN Lanza(<<"No se pudo consultar la tarea específica.">>)
        ELSE IF filas = {}
        THEN Lanza(<<"La tarea con ID no existe.", tarSec>>)
        ELSE IF vaDirigidoA \notin {"NotificarAsignado", "NotificarCreador"}
        THEN Lanza(<<"El parámetro 'vaDirigidoA' no es válido.", vaDirigidoA>>)
        ELSE IF target = ""
        THEN Retorna(<<"La tarea no tiene un destinatario válido para la acción.",
                       tarSec, vaDirigidoA>>, <<>>)
        ELSE IF ~ok.alias
        THEN Lanza(<<"No se pudo obtener el username del funcionario.">>)
        ELSE IF usernameSlack = ""
        THEN Retorna(<<"No se encontró el username de Slack para el funcionario.",
                       target>>, <<>>)
        ELSE IF slackUserId = ""
        THEN Retorna(<<"No se encontró el usuario de Slack correspondiente al funcionario.",
                       target>>, <<>>)
        ELSE IF ~ok.post
        THEN Lanza(<<"No se pudo enviar el mensaje de Slack al usuario.", slackUserId>>)
        ELSE Retorna(<<"Notificación enviada correctamente.", tarSec, target>>,
                     <<mensaje>>)

\* mutant: the body of the older handler, with a detail field
RespuestaErrorConDetalle(error) ==
    [ status |-> 500,
      body |-> [status |-> "error", message |-> error, detail |-> error] ]

\* res.status(500).json({...}) of the endpoint; error.message is never empty
RespuestaError(error) ==
    [ status |-> 500, body |-> [status |-> "error", message |-> error] ]

\* res.status(200).json({...}) of the endpoint
RespuestaOk(resultado) ==
    [ status |-> 200, body |-> [status |-> "ok", message |-> resultado] ]

----------------------------------------------------------------------------
(* Specification of the notification endpoint: the external system posts   *)
(* requests, the handler answers each of them.                             *)

TiposDeNotificacion == {"NotificarAsignado", "NotificarCreador", "NotificarTodos"}

\* the task ids requested: the three tasks and one that does not exist
TareasSolicitadas == {1, 2, 3, 4}

InitNotificar ==
    /\ ReposoFechas
    /\ ReposoDiario
    /\ ReposoResumen
    /\ hoy = PrimerDia
    /\ desfaseUTC = 0
    /\ llamador = ""
    /\ miembros \in {DirectorioSlack, DirectorioSlack \cup {MiembroRemoto}}
    /\ pc = "reposo"
    /\ listaConsultada = FALSE
    /\ funcionarios = <<>>
    /\ indice = 1
    /\ periodo = <<>>
    /\ festivosAnio = 0
    /\ enviados = <<>>
    /\ usuariosProcesados = 0
    /\ usuariosConPendientes = 0
    /\ usuariosAlDia = 0
    /\ listaUsuariosAlDia = <<>>
    /\ listaUsuariosConPendientes = <<>>
    /\ bitacora = <<>>
    /\ solicitud = <<>>
    /\ recibidas = 0
    /\ respuestas = <<>>
    /\ ReposoSemanas
    /\ ReposoCheckMe
    /\ ReposoDespacho
    /\ ReposoOtros

\* a POST /api/notificar-tareas/:vaDirigidoA/:TarSec arrives
RecibirSolicitud ==
    /\ solicitud = <<>>
    /\ recibidas < MaxSolicitudes
    /\ \E tipo \in TiposDeNotificacion, tarSec \in TareasSolicitadas :
           solicitud' = <<[vaDirigidoA |-> tipo, TarSec |-> tarSec]>>
    /\ recibidas' = recibidas + 1
    /\ UNCHANGED respuestas
    /\ UNCHANGED <<varsFechas, varsDiario, varsResumen, varsMasivo, varsSemanas, varsCheckMe, varsDespacho, varsOtros>>

\* the handler of the endpoint, from the request to its response
AtenderSolicitud ==
    /\ solicitud # <<>>
    /\ \E ok \in [{"tarea", "nombre", "alias", "lista", "post"} -> BOOLEAN] :
         LET resultado == execute(solicitud[1].vaDirigidoA, solicitud[1].TarSec, ok)
         IN  /\ enviados' = enviados \o resultado.mensajes
             /\ respuestas' = Append(respuestas,
                    IF resultado.lanza THEN RespuestaError(resultado.valor)
                    ELSE RespuestaOk(resultado.valor))
    /\ solicitud' = <<>>
    /\ UNCHANGED recibidas
    /\ UNCHANGED <<varsFechas, varsDiario, varsResumen, varsSemanas, varsCheckMe, varsDespacho, varsOtros>>
    /\ UNCHANGED <<varsEntornoMasivo, pc, listaConsultada, funcionarios, indice, periodo,
                   festivosAnio, varsContadores, bitacora>>

NextNotificar == RecibirSolicitud \/ AtenderSolicitud

SpecNotificar == InitNotificar /\ [][NextNotificar]_vars

----------------------------------------------------------------------------
(* Specification of the grouping by weeks: a list of daily records in any  *)
(* order, then agruparPorSemanas on it.                                    *)

MaxRegistros == 4

\* a Friday, a Saturday, the Monday and Sunday after them and the Tuesday of
\* the week after that
DiasSemanas ==
    LET lunes == startOfWeek(PrimerDia + 6)
    IN  {lunes + 4, lunes + 5, lunes + 7, lunes + 13, lunes + 15}

SumasSemanas == {<<>>, <<8, 30>>}

InitSemanas ==
    /\ ReposoFechas
    /\ ReposoDiario
    /\ ReposoResumen
    /\ ReposoMasivo
    /\ ReposoNotificar
    /\ ReposoCheckMe
    /\ ReposoDespacho
    /\ ReposoOtros
    /\ semanas = <<>>

AgregarRegistro ==
    /\ semanas = <<>>
    /\ Len(reportesDiarios) < MaxRegistros
    /\ \E f \in DiasSemanas, sumas \in SumasSemanas :
           reportesDiarios' = Append(reportesDiarios, ReporteDiario(f, sumas))
    /\ UNCHANGED <<sabadosExcluidos, festivosExcluidos, resumenSemanal, resumenMensual>>
    /\ UNCHANGED <<varsFechas, varsDiario, varsMasivo, varsNotificar, semanas, varsCheckMe, varsDespacho, varsOtros>>

AgruparPorSemanas ==
    /\ semanas = <<>>
    /\ semanas' = <<agruparPorSemanas(reportesDiarios)>>
    /\ UNCHANGED <<varsFechas, varsDiario, varsResumen, varsMasivo, varsNotificar,
                   varsCheckMe, varsDespacho, varsOtros>>

NextSemanas == AgregarRegistro \/ AgruparPorSemanas

SpecSemanas == InitSemanas /\ [][NextSemanas]_vars

----------------------------------------------------------------------------
(* ServicioUsuario and ComandoReporteMensual of checkMe.js: the command    *)
(* crm-check-me, the monthly report of the employee who sent it.           *)

\* mutant: when users.info fails the report of another user is built
UsuarioDesconocidoConAlias ==
    [name |-> "ana", real_name |-> "Usuario", email |-> ""]

\* what obtenerInformacionUsuario returns when users.info fails
UsuarioDesconocido ==
    [name |-> "usuario_desconocido", real_name |-> "Usuario",
     email |-> "usuario@desconocido.com"]

\* profile.email of a member of the workspace, "" when the profile shows none
CorreoDePerfil(nombre) == IF nombre = "luis" THEN "luis@crm.co" ELSE ""

\* obtenerInformacionUsuario(userId): the user of users.info, or the
\* fallback user when the request fails
obtenerInformacionUsuario(nombre, usersInfoOk) ==
    IF usersInfoOk /\ \E m \in miembros : m.name = nombre
    THEN LET m == CHOOSE x \in miembros : x.name = nombre
         IN  [name |-> m.name, real_name |-> m.real_name,
              email |-> CorreoDePerfil(m.name)]
    ELSE UsuarioDesconocido

\* informacionUsuario.profile?.email || informacionUsuario.name
emailUsuario(informacionUsuario) ==
    IF informacionUsuario.email # "" THEN informacionUsuario.email
    ELSE informacionUsuario.name

\* obtenerDiasLaborables when eachDayOfInterval is handed start > end and
\* returns the days backwards
obtenerDiasLaborablesInvertido(arch, ini, fin, tipo, fest) ==
    LET todosLosDias == eachDayOfIntervalInvertido(ini, fin)
        filtro(dia) == EsLaborable(arch, dia, tipo, fest)
    IN  SelectSeq(todosLosDias, filtro)

\* festivos.filter(f => new Date(f) >= primerDiaMes && new Date(f) <= ayer)
\* .length, with primerDiaMes at 00:00 and ayer at the hour of the request
contarFestivosExcluidosCheckMe(fest, ini, ayer, hora, desfase) ==
    Cardinality({i \in 1..Len(fest) :
                    /\ NuevaFechaUTC(fest[i], desfase) >= 24 * ini
                    /\ NuevaFechaUTC(fest[i], desfase) <= 24 * ayer + hora})

\* mutant: the weeks are numbered from zero
numeroSemanaDesdeCero(i) == i - 1

\* const numeroSemana = indice + 1, for the i-th week of the list
numeroSemana(i) == i

----------------------------------------------------------------------------
(* Specification of crm-check-me: a Slack user sends the command on some   *)
(* day; Slack and the database may fail at every request.                  *)

\* the first of a month, a January 2 (no working day before it), a day in
\* the middle of a month and a day after a Saturday, a Sunday and a holiday
HoyCheckMe ==
    { NuevaFecha(PrimerAnio + 1, 10, 1), NuevaFecha(PrimerAnio + 2, 1, 2),
      NuevaFecha(PrimerAnio + 1, 10, 15), NuevaFecha(PrimerAnio + 1, 11, 4) }

LlamadoresCheckMe == {"ludwing", "ana", "luis", "karla", "nuevo", "externo"}

HorasCheckMe == {9, 21}

InitCheckMe ==
    /\ ReposoFechas
    /\ hoy \in HoyCheckMe
    /\ horaHoy \in HorasCheckMe
    /\ desfaseUTC \in {-5, 0}
    /\ llamador \in LlamadoresCheckMe
    /\ miembros = DirectorioSlack
    /\ \E perfil \in Perfiles :
           tabla = UNION { FilasDePerfil(c, perfil, startOfMonth(subMonths(hoy, 1))..hoy)
                           : c \in {"10", "20"} }
    /\ funCod = ""
    /\ fechaReporte = PrimerDia
    /\ reporte = <<>>
    /\ ReposoResumen
    /\ pc = "inicio"
    /\ listaConsultada = FALSE
    /\ funcionarios = <<>>
    /\ indice = 1
    /\ periodo = <<>>
    /\ festivosAnio = 0
    /\ enviados = <<>>
    /\ usuariosProcesados = 0
    /\ usuariosConPendientes = 0
    /\ usuariosAlDia = 0
    /\ listaUsuariosAlDia = <<>>
    /\ listaUsuariosConPendientes = <<>>
    /\ bitacora = <<>>
    /\ ReposoNotificar
    /\ ReposoSemanas
    /\ ReposoDespacho
    /\ ReposoOtros

\* the catch of execute: one error message, and the command is over
FallarCheckMe(texto) ==
    /\ enviados' = Append(enviados, MensajeSay("error", <<texto>>))
    /\ pc' = "fin"
    /\ UNCHANGED <<varsFechas, varsDiario, varsResumen, indice, periodo,
                   festivosAnio, semanas>>

\* execute up to the loop over the weeks: the user, the employee, the
\* period, the working days, the daily reports and the header.  usersInfoOk,
\* consultaOk and reportesOk tell whether users.info, the employee query and
\* the time-log queries succeed; intervaloInvertido tells whether the
\* date-fns installed returns the days of an interval with start > end
\* backwards (version 3 and later) or throws (version 2).
GenerarReporteMensual ==
    /\ pc = "inicio"
    /\ \E usersInfoOk, consultaOk, reportesOk, intervaloInvertido \in BOOLEAN :
         LET informacionUsuario == obtenerInformacionUsuario(llamador, usersInfoOk)
             nombreUsuario == IF informacionUsuario.real_name # ""
                              THEN informacionUsuario.real_name ELSE "Usuario"
             filas == ConsultaFunCod(emailUsuario(informacionUsuario))
             primerDiaMes == startOfMonth(hoy)
             ayer == subDays(hoy, 1)
             fest == obtenerFestivosColombia("checkMe", getFullYear(hoy))
         IN  IF ~consultaOk THEN FallarCheckMe("query")
             ELSE IF Len(filas) = 0 THEN FallarCheckMe("No se encontró un funcionario activo")
             ELSE IF ~TipoDescansoValido(filas[1]) THEN FallarCheckMe("TipoDescanso inválido")
             ELSE IF primerDiaMes > ayer /\ ~intervaloInvertido
                  THEN FallarCheckMe("Invalid interval")
             ELSE
               LET cod == filas[1].FunCod
                   tipo == filas[1].TipoDescanso
                   dias == IF primerDiaMes <= ayer
                           THEN obtenerDiasLaborables("checkMe", primerDiaMes, ayer, tipo, fest)
                           ELSE obtenerDiasLaborablesInvertido("checkMe", primerDiaMes, ayer,
                                                               tipo, fest)
                   sabados == IF primerDiaMes <= ayer
                              THEN contarSabadosExcluidos("checkMe", primerDiaMes, ayer, tipo)
                              ELSE contarSabadosExcluidos("checkMe", ayer, primerDiaMes, tipo)
                   numFestivos == contarFestivosExcluidosCheckMe(fest, primerDiaMes, ayer,
                                                                 horaHoy, desfaseUTC)
                   reportes == ReportesDelPeriodo(cod, dias)
                   grupos == agruparPorSemanas(reportes)
                   encabezado == MensajeSay("inicio",
                                            <<nombreUsuario, cod, tipo, primerDiaMes, ayer,
                                              sabados, numFestivos>>)
               IN  IF Len(dias) > 0 /\ ~reportesOk THEN FallarCheckMe("query")
                   ELSE /\ funCod' = cod
                        /\ tipoDescanso' = tipo
                        /\ festivos' = fest
                        /\ diasLaborables' = dias
                        /\ periodo' = <<primerDiaMes, ayer>>
                        /\ festivosAnio' = getFullYear(hoy)
                        /\ sabadosExcluidos' = sabados
                        /\ festivosExcluidos' = numFestivos
                        /\ reportesDiarios' = reportes
                        /\ semanas' = <<grupos>>
                        /\ indice' = 1
                        /\ IF Len(grupos) = 0
                           THEN /\ enviados' = enviados \o
                                       <<encabezado, MensajeSay("sinDias", <<>>)>>
                                /\ pc' = "fin"
                           ELSE /\ enviados' = Append(enviados, encabezado)
                                /\ pc' = "semanas"
                        /\ UNCHANGED <<archivo, fechaInicio, fechaFin, descanso, llamadas,
                                       tabla, fechaReporte, reporte, resumenSemanal,
                                       resumenMensual>>
    /\ UNCHANGED <<varsEntornoMasivo, listaConsultada, funcionarios, varsContadores,
                   bitacora, varsNotificar, varsCheckMe, varsDespacho, varsOtros>>

\* one turn of the loop over semanas.entries(): the message of a week
EnviarSemana ==
    /\ pc = "semanas"
    /\ indice <= Len(semanas[1])
    /\ LET semana == semanas[1][indice]
           primeraFecha == semana[1].fechaObj
           ultimaFecha == semana[Len(semana)].fechaObj
           esUltimaSemana == indice = Len(semanas[1])
       IN  enviados' = Append(enviados,
                              MensajeSay("semana",
                                         <<numeroSemana(indice), semana, primeraFecha,
                                           ultimaFecha, esUltimaSemana>>))
    /\ indice' = indice + 1
    /\ UNCHANGED <<varsFechas, varsDiario, varsResumen, varsEntornoMasivo, pc,
                   listaConsultada, funcionarios, periodo, festivosAnio, varsContadores,
                   bitacora, varsExtra>>

\* after the loop: the monthly summary, the last message
EnviarResumenMensual ==
    /\ pc = "semanas"
    /\ indice > Len(semanas[1])
    /\ resumenMensual' = calcularResumenMensual(reportesDiarios, sabadosExcluidos,
                                                festivosExcluidos)
    /\ enviados' = Append(enviados, MensajeSay("resumen", <<resumenMensual'>>))
    /\ pc' = "fin"
    /\ UNCHANGED <<varsFechas, varsDiario, reportesDiarios, sabadosExcluidos,
                   festivosExcluidos, resumenSemanal, varsEntornoMasivo,
                   listaConsultada, funcionarios, indice, periodo, festivosAnio,
                   varsContadores, bitacora, varsExtra>>

NextCheckMe == GenerarReporteMensual \/ EnviarSemana \/ EnviarResumenMensual

SpecCheckMe == InitCheckMe /\ [][NextCheckMe]_vars

----------------------------------------------------------------------------
(* The direct-message dispatcher of app.js: commandHandlers and the        *)
(* handler of the Slack event 'message'.  A text is the sequence of its    *)
(* characters.                                                             *)

Mayusculas ==
    <<"A", "B", "C", "D", "E", "F", "G", "H", "I", "J", "K", "L", "M",
      "N", "O", "P", "Q", "R", "S", "T", "U", "V", "W", "X", "Y", "Z">>

Minusculas ==
    <<"a", "b", "c", "d", "e", "f", "g", "h", "i", "j", "k", "l", "m",
      "n", "o", "p", "q", "r", "s", "t", "u", "v", "w", "x", "y", "z">>

\* String.prototype.toLowerCase, character by character
textoEnMinusculas(texto) ==
    [i \in 1..Len(texto) |->
        IF \E k \in 1..Len(Mayusculas) : Mayusculas[k] = texto[i]
        THEN Minusculas[CHOOSE k \in 1..Len(Mayusculas) : Mayusculas[k] = texto[i]]
        ELSE texto[i]]

\* String.prototype.trim: the text without the white space at its two ends
textoRecortado(texto) ==
    LET visibles == {i \in 1..Len(texto) : texto[i] # " "}
    IN  IF visibles = {} THEN <<>>
        ELSE LET primero == CHOOSE i \in visibles : \A j \in visibles : i <= j
                 ultimo == CHOOSE i \in visibles : \A j \in visibles : j <= i
             IN  SubSeq(texto, primero, ultimo)

\* const commandText = event.text.toLowerCase().trim()
commandText(texto) == textoRecortado(textoEnMinusculas(texto))

\* the object commandHandlers: the class each own key instantiates
commandHandlers ==
    (<<"i", "n", "f", "o">> :> "CheckCommands")
    @@ (<<"a", "y", "u", "d", "a">> :> "CheckCommands")
    @@ (<<"u", "n", "i", "c", "h", "e", "c", "k">> :> "CheckMyProfile")
    @@ (<<"c", "r", "m", "-", "c", "h", "e", "c", "k", "-", "m", "e">> :> "CheckMeCommand")
    @@ (<<"c", "r", "m", "-", "c", "h", "e", "c", "k", "-", "m", "e", "-", "p", "a", "s", "t">> :> "CheckMePastCommand")
    @@ (<<"c", "r", "m", "-", "c", "h", "e", "c", "k", "-", "a", "l", "l", "-", "a", "d", "m", "i", "n">> :> "CheckAllCommand")
    @@ (<<"c", "r", "m", "-", "c", "h", "e", "c", "k", "-", "a", "l", "l", "-", "a", "d", "m", "i", "n", "-", "p", "a", "s", "t">> :> "CheckAllPastCommand")

\* the keys commandHandlers inherits from Object.prototype that are written
\* in lower case: constructor (the function Object) and __proto__
PropiedadesHeredadas ==
    { <<"c", "o", "n", "s", "t", "r", "u", "c", "t", "o", "r">>,
      <<"_", "_", "p", "r", "o", "t", "o", "_", "_">> }

\* commandHandlers[commandText]: the factory of an own key, an inherited
\* value that is no factory of a handler, or undefined
handlerFactory(texto) ==
    IF texto \in DOMAIN commandHandlers THEN <<"fabrica", commandHandlers[texto]>>
    ELSE IF texto \in PropiedadesHeredadas THEN <<"heredada">>
    ELSE <<>>

\* mutant: the messages of bots are handled too
EsMensajeDirectoSinBot(e) == e.channel_type = "im" /\ e.subtype = ""

\* event.channel_type === 'im' && !event.bot_id && !event.subtype
EsMensajeDirecto(e) == e.channel_type = "im" /\ e.bot_id = "" /\ e.subtype = ""

\* the reply to a text that selects no handler: the commands it lists
ComandosDeLaAyuda == <<"info", "ayuda", "unicheck", "crm-check-me", "crm-check-me-past">>

\* replyInThread(message): say with thread_ts: event.ts
replyInThread(tipo, ts, datos) == MensajeSay(tipo, <<ts>> \o datos)

----------------------------------------------------------------------------
(* Specification of the dispatcher: Slack delivers message events, one at  *)
(* a time; the handler a text selects may end well or throw.               *)

MaxEventos == 2

\* texts a user may type: the commands as written, with capitals or white
\* space around them, texts that are no command, and names every
\* JavaScript object inherits
TextosDeEvento ==
    { <<"i", "n", "f", "o">>,
      <<"a", "y", "u", "d", "a">>,
      <<"u", "n", "i", "c", "h", "e", "c", "k">>,
      <<"c", "r", "m", "-", "c", "h", "e", "c", "k", "-", "m", "e">>,
      <<"c", "r", "m", "-", "c", "h", "e", "c", "k", "-", "m", "e", "-", "p", "a", "s", "t">>,
      <<"c", "r", "m", "-", "c", "h", "e", "c", "k", "-", "a", "l", "l", "-", "a", "d", "m", "i", "n">>,
      <<"c", "r", "m", "-", "c", "h", "e", "c", "k", "-", "a", "l", "l", "-", "a", "d", "m", "i", "n", "-", "p", "a", "s", "t">>,
      <<"I", "N", "F", "O">>,
      <<" ", "A", "y", "u", "d", "a", " ">>,
      <<"C", "R", "M", "-", "C", "h", "e", "c", "k", "-", "M", "e">>,
      <<" ", " ", "u", "n", "i", "c", "h", "e", "c", "k">>,
      <<"c", "r", "m", "-", "c", "h", "e", "c", "k", "-", "a", "l", "l", "-", "a", "d", "m", "i", "n", "-", "p", "a", "s", "t", " ">>,
      <<"h", "o", "l", "a">>,
      <<"c", "r", "m", " ", "c", "h", "e", "c", "k", " ", "m", "e">>,
      <<>>,
      <<" ", " ">>,
      <<"i", "n", "f", "o", " ", "p", "l", "e", "a", "s", "e">>,
      <<"c", "o", "n", "s", "t", "r", "u", "c", "t", "o", "r">>,
      <<"_", "_", "p", "r", "o", "t", "o", "_", "_">>,
      <<" ", "C", "o", "n", "s", "t", "r", "u", "c", "t", "o", "r">>,
      <<"t", "o", "S", "t", "r", "i", "n", "g">> }

Eventos ==
    [ channel_type : {"im", "channel"}, bot_id : {"", "B01"},
      subtype : {"", "message_changed"}, text : TextosDeEvento ]

InitDespacho ==
    /\ ReposoFechas
    /\ ReposoDiario
    /\ ReposoResumen
    /\ hoy = PrimerDia
    /\ desfaseUTC = 0
    /\ llamador = ""
    /\ miembros = {}
    /\ pc = "reposo"
    /\ listaConsultada = FALSE
    /\ funcionarios = <<>>
    /\ indice = 1
    /\ periodo = <<>>
    /\ festivosAnio = 0
    /\ enviados = <<>>
    /\ usuariosProcesados = 0
    /\ usuariosConPendientes = 0
    /\ usuariosAlDia = 0
    /\ listaUsuariosAlDia = <<>>
    /\ listaUsuariosConPendientes = <<>>
    /\ bitacora = <<>>
    /\ ReposoNotificar
    /\ ReposoSemanas
    /\ ReposoCheckMe
    /\ ReposoOtros
    /\ evento = <<>>
    /\ eventosRecibidos = 0
    /\ ejecutados = <<>>
    /\ ecos = 0

\* Slack delivers a message event
RecibirEvento ==
    /\ evento = <<>>
    /\ eventosRecibidos < MaxEventos
    /\ \E e \in Eventos : evento' = <<e>>
    /\ eventosRecibidos' = eventosRecibidos + 1
    /\ UNCHANGED <<ejecutados, enviados, ecos>>
    /\ UNCHANGED <<varsFechas, varsDiario, varsResumen, varsEntornoMasivo, pc,
                   listaConsultada, funcionarios, indice, periodo, festivosAnio,
                   varsContadores, bitacora, varsNotificar, varsSemanas, varsCheckMe,
                   varsOtros>>

\* Slack delivers a reply of the bot as a message event of the same
\* conversation: it carries the bot_id of the bot, whatever its text
RecibirEco ==
    /\ evento = <<>>
    /\ ecos < Len(enviados)
    /\ \E subtipo \in {"", "bot_message"}, texto \in TextosDeEvento :
           evento' = <<[channel_type |-> "im", bot_id |-> "B01",
                        subtype |-> subtipo, text |-> texto]>>
    /\ ecos' = ecos + 1
    /\ UNCHANGED <<ejecutados, enviados, eventosRecibidos>>
    /\ UNCHANGED <<varsFechas, varsDiario, varsResumen, varsEntornoMasivo, pc,
                   listaConsultada, funcionarios, indice, periodo, festivosAnio,
                   varsContadores, bitacora, varsNotificar, varsSemanas, varsCheckMe,
                   varsOtros>>

\* the handler of bot.event('message').  ejecucionOk tells whether execute
\* of the handler selected ends without throwing.
AtenderEvento ==
    /\ evento # <<>>
    /\ evento' = <<>>
    /\ LET e == evento[1]
           ts == eventosRecibidos
           fabrica == handlerFactory(commandText(e.text))
       IN  IF ~EsMensajeDirecto(e)
           THEN UNCHANGED <<ejecutados, enviados>>
           ELSE IF fabrica = <<>>
           THEN /\ enviados' = Append(enviados,
                                      replyInThread("Comando no reconocido", ts,
                                                    ComandosDeLaAyuda))
                /\ UNCHANGED ejecutados
           ELSE IF fabrica[1] = "heredada"
           THEN /\ enviados' = Append(enviados,
                                      replyInThread("Error al procesar el comando", ts,
                                                    <<"TypeError">>))
                /\ UNCHANGED ejecutados
           ELSE \E ejecucionOk \in BOOLEAN :
                  /\ ejecutados' = Append(ejecutados, fabrica[2])
                  /\ IF ejecucionOk THEN UNCHANGED enviados
                     ELSE enviados' = Append(enviados,
                                             replyInThread("Error al procesar el comando",
                                                           ts, <<"Error">>))
    /\ UNCHANGED <<eventosRecibidos, ecos>>
    /\ UNCHANGED <<varsFechas, varsDiario, varsResumen, varsEntornoMasivo, pc,
                   listaConsultada, funcionarios, indice, periodo, festivosAnio,
                   varsContadores, bitacora, varsNotificar, varsSemanas, varsCheckMe,
                   varsOtros>>

NextDespacho == RecibirEvento \/ RecibirEco \/ AtenderEvento

SpecDespacho == InitDespacho /\ [][NextDespacho]_vars

----------------------------------------------------------------------------
(* ServicioNotificaciones and ComandoNotificarTareas of the batch variant   *)
(* of the notification relay (src/unnamed/part_003).  NULL is "".           *)

\* the rows of Tareas with TarNot = 'N' OR TarNot IS NULL
EsPendiente(tarea) == tarea.TarNot = "N" \/ tarea.TarNot = ""

\* obtenerFuncionariosPorNotificar, once its query has returned:
\* SELECT DISTINCT SubFunCodTar of the pending rows, NULL included
obtenerFuncionariosPorNotificar(tareas) ==
    {tareas[t].SubFunCodTar : t \in {u \in 1..Len(tareas) : EsPendiente(tareas[u])}}

\* obtenerEmailsDeFuncionarios, once its query has returned: FunDirEmail of
\* the active employees whose FunCod is IN the list (NULL matches no row)
obtenerEmailsDeFuncionarios(ids) ==
    {TablaFuncionarios[i].FunDirEmail :
        i \in {j \in 1..Len(TablaFuncionarios) :
                  /\ TablaFuncionarios[j].FunCod \in ids \ {""}
                  /\ TablaFuncionarios[j].FunEst = "A"
                  /\ TablaFuncionarios[j].FunDirEmail # ""}}

\* UPDATE Tareas SET TarNot = 'S' WHERE SubFunCodTar IN (ids) AND
\* (TarNot = 'N' OR TarNot IS NULL)
marcarTareasComoNotificadas(tareas, ids) ==
    [t \in 1..Len(tareas) |->
        IF tareas[t].SubFunCodTar \in ids \ {""} /\ EsPendiente(tareas[t])
        THEN [tareas[t] EXCEPT !.TarNot = "S"]
        ELSE tareas[t]]

----------------------------------------------------------------------------
(* Specification of the batch variant: runs of execute, one after another, *)
(* while the external task system inserts tasks at any moment; every       *)
(* request to the database or to Slack may fail.                           *)

MaxTareas == 3
MaxCorridas == 2

\* assignees of a task: an active employee with alias, an inactive one, an
\* active one whose alias has a capital, and none (NULL)
Asignados == {"20", "8", "30", ""}

FilasDeTarea == [SubFunCodTar : Asignados, TarNot : {"N", "", "S"}]

InitLote ==
    /\ ReposoFechas
    /\ ReposoDiario
    /\ ReposoResumen
    /\ hoy = PrimerDia
    /\ desfaseUTC = 0
    /\ llamador = ""
    /\ miembros = {}
    /\ pc = "espera"
    /\ listaConsultada = FALSE
    /\ funcionarios = <<>>
    /\ indice = 1
    /\ periodo = <<>>
    /\ festivosAnio = 0
    /\ enviados = <<>>
    /\ usuariosProcesados = 0
    /\ usuariosConPendientes = 0
    /\ usuariosAlDia = 0
    /\ listaUsuariosAlDia = <<>>
    /\ listaUsuariosConPendientes = <<>>
    /\ bitacora = <<>>
    /\ ReposoNotificar
    /\ ReposoSemanas
    /\ ReposoCheckMe
    /\ ReposoDespacho
    /\ ReposoHilos
    /\ tablaTareas \in {<<f>> : f \in FilasDeTarea}
    /\ idsFuncionarios = {}
    /\ emailsSlack = {}
    /\ entregados = {}
    /\ corridas = 0

\* what no action of the batch variant touches
SinCambiosFueraDelLote ==
    UNCHANGED <<varsFechas, varsDiario, varsResumen, varsEntornoMasivo,
                listaConsultada, funcionarios, indice, periodo, festivosAnio,
                enviados, varsContadores, varsNotificar, varsSemanas, varsCheckMe,
                varsDespacho, varsHilos>>

\* the external task system inserts a task, not yet notified
InsertarTarea ==
    /\ Len(tablaTareas) < MaxTareas
    /\ \E asignado \in Asignados, marca \in {"N", ""} :
           tablaTareas' = Append(tablaTareas,
                                 [SubFunCodTar |-> asignado, TarNot |-> marca])
    /\ UNCHANGED <<pc, bitacora, idsFuncionarios, emailsSlack, entregados, corridas>>
    /\ SinCambiosFueraDelLote

\* execute, step 1: the employees with pending tasks
ConsultarPendientes ==
    /\ pc = "espera"
    /\ corridas < MaxCorridas
    /\ corridas' = corridas + 1
    /\ emailsSlack' = {}
    /\ \E consultaOk \in BOOLEAN :
         LET ids == obtenerFuncionariosPorNotificar(tablaTareas)
         IN  IF ~consultaOk
             THEN /\ bitacora' = Append(bitacora,
                         "No se pudieron consultar las tareas pendientes.")
                  /\ idsFuncionarios' = {}
                  /\ UNCHANGED pc
             ELSE IF ids = {}
             THEN /\ bitacora' = Append(bitacora, "No hay usuarios para notificar.")
                  /\ idsFuncionarios' = {}
                  /\ UNCHANGED pc
             ELSE /\ idsFuncionarios' = ids
                  /\ pc' = "emails"
                  /\ UNCHANGED bitacora
    /\ UNCHANGED <<tablaTareas, entregados>>
    /\ SinCambiosFueraDelLote

\* execute, step 2: the aliases of those employees
ConsultarEmails ==
    /\ pc = "emails"
    /\ \E consultaOk \in BOOLEAN :
         IF ~consultaOk
         THEN /\ bitacora' = Append(bitacora,
                     "No se pudieron obtener los datos de los funcionarios.")
              /\ pc' = "espera"
              /\ UNCHANGED emailsSlack
         ELSE /\ emailsSlack' = obtenerEmailsDeFuncionarios(idsFuncionarios)
              /\ pc' = IF emailsSlack' = {} THEN "marcar" ELSE "envio"
              /\ UNCHANGED bitacora
    /\ UNCHANGED <<tablaTareas, idsFuncionarios, entregados, corridas>>
    /\ SinCambiosFueraDelLote

\* execute, step 3: Promise.all over chat.postMessage(...).catch(...): the
\* messages of exitosos arrive, the failures of the others are only logged
EnviarMensajes ==
    /\ pc = "envio"
    /\ \E exitosos \in SUBSET emailsSlack :
           entregados' = entregados \cup {<<corridas, email>> : email \in exitosos}
    /\ pc' = "marcar"
    /\ UNCHANGED <<tablaTareas, bitacora, idsFuncionarios, emailsSlack, corridas>>
    /\ SinCambiosFueraDelLote

\* execute, step 4: marcarTareasComoNotificadas, whose failure is only
\* logged, and the return
MarcarTareas ==
    /\ pc = "marcar"
    /\ \E actualizacionOk \in BOOLEAN :
           tablaTareas' = IF actualizacionOk
                          THEN marcarTareasComoNotificadas(tablaTareas, idsFuncionarios)
                          ELSE tablaTareas
    /\ bitacora' = Append(bitacora,
                          IF emailsSlack = {}
                          THEN "No se encontraron usuarios de Slack válidos"
                          ELSE "Proceso de notificación finalizado")
    /\ pc' = "espera"
    /\ UNCHANGED <<idsFuncionarios, emailsSlack, entregados, corridas>>
    /\ SinCambiosFueraDelLote

NextLote ==
    \/ InsertarTarea
    \/ ConsultarPendientes
    \/ ConsultarEmails
    \/ EnviarMensajes
    \/ MarcarTareas

SpecLote == InitLote /\ [][NextLote]_vars

----------------------------------------------------------------------------
(* Concurrent handling of direct messages: every event gets its own run of *)
(* the handler of app.js and of the command it selects, each with its own  *)
(* locals (event, replyInThread, the locals of execute); the runs take     *)
(* turns at every await.                                                   *)

\* mutant: the reply goes to the thread of the event received last
enHiloUltimoEvento(message, ts) ==
    [canal |-> message.canal, tipo |-> message.tipo, datos |-> message.datos,
     thread_ts |-> 1000 + eventosRecibidos, reply_broadcast |-> FALSE]

\* say({ ...message, thread_ts: event.ts, reply_broadcast: false }) of
\* replyInThread: what say receives for a message of a command
enHilo(message, ts) ==
    [canal |-> message.canal, tipo |-> message.tipo, datos |-> message.datos,
     thread_ts |-> ts, reply_broadcast |-> FALSE]

\* ComandoReporteMensual.execute up to its first say, as a function of the
\* caller and of what fails: error is "" or the text of the exception,
\* consultas the number of time-log queries issued
PrepararReporteMensual(nombre, usersInfoOk, consultaOk, reportesOk, intervaloInvertido) ==
    LET informacionUsuario == obtenerInformacionUsuario(nombre, usersInfoOk)
        nombreUsuario == IF informacionUsuario.real_name # ""
                         THEN informacionUsuario.real_name ELSE "Usuario"
        filas == ConsultaFunCod(emailUsuario(informacionUsuario))
        primerDiaMes == startOfMonth(hoy)
        ayer == subDays(hoy, 1)
        fest == obtenerFestivosColombia("checkMe", getFullYear(hoy))
        Falla(texto) ==
            [error |-> texto, encabezado |-> <<>>, grupos |-> <<>>, reportes |-> <<>>,
             sabados |-> 0, numFestivos |-> 0, consultas |-> 0]
    IN  IF ~consultaOk THEN Falla("query")
        ELSE IF Len(filas) = 0 THEN Falla("No se encontró un funcionario activo")
        ELSE IF ~TipoDescansoValido(filas[1]) THEN Falla("TipoDescanso inválido")
        ELSE IF primerDiaMes > ayer /\ ~intervaloInvertido THEN Falla("Invalid interval")
        ELSE
          LET cod == filas[1].FunCod
              tipo == filas[1].TipoDescanso
              dias == IF primerDiaMes <= ayer
                      THEN obtenerDiasLaborables("checkMe", primerDiaMes, ayer, tipo, fest)
                      ELSE obtenerDiasLaborablesInvertido("checkMe", primerDiaMes, ayer,
                                                          tipo, fest)
              sabados == IF primerDiaMes <= ayer
                         THEN contarSabadosExcluidos("checkMe", primerDiaMes, ayer, tipo)
                         ELSE contarSabadosExcluidos("checkMe", ayer, primerDiaMes, tipo)
              numFestivos == contarFestivosExcluidosCheckMe(fest, primerDiaMes, ayer,
                                                            horaHoy, desfaseUTC)
              reportes == ReportesDelPeriodo(cod, dias)
          IN  IF Len(dias) > 0 /\ ~reportesOk
              THEN [Falla("query") EXCEPT !.consultas = 1]
              ELSE [error |-> "",
                    encabezado |-> <<nombreUsuario, cod, tipo, primerDiaMes, ayer,
                                     sabados, numFestivos>>,
                    grupos |-> agruparPorSemanas(reportes),
                    reportes |-> reportes,
                    sabados |-> sabados,
                    numFestivos |-> numFestivos,
                    consultas |-> Len(dias)]

\* the message of the i-th week of grupos
MensajeDeSemana(grupos, i) ==
    LET semana == grupos[i]
    IN  MensajeSay("semana",
                   <<numeroSemana(i), semana, semana[1].fechaObj,
                     semana[Len(semana)].fechaObj, i = Len(grupos)>>)

----------------------------------------------------------------------------
(* Specification of the concurrent runs: users send direct messages while  *)
(* earlier ones are still being answered.                                  *)

MaxInvocaciones == 2

\* event.ts of the n-th event
TsDe(n) == 1000 + n

UsuariosHilos == {"ana", "externo"}

\* crm-check-me, the help command with capitals and a space, and no command
TextosHilos ==
    { <<"c", "r", "m", "-", "c", "h", "e", "c", "k", "-", "m", "e">>,
      <<" ", "I", "N", "F", "O">>,
      <<"h", "o", "l", "a">> }

InitHilos ==
    /\ ReposoFechas
    /\ hoy = NuevaFecha(PrimerAnio + 1, 10, 8)
    /\ horaHoy = 9
    /\ desfaseUTC = -5
    /\ llamador = ""
    /\ miembros = DirectorioSlack
    /\ tabla = FilasDePerfil("20", "completo", startOfMonth(hoy)..hoy)
    /\ funCod = ""
    /\ fechaReporte = PrimerDia
    /\ reporte = <<>>
    /\ ReposoResumen
    /\ pc = "reposo"
    /\ listaConsultada = FALSE
    /\ funcionarios = <<>>
    /\ indice = 1
    /\ periodo = <<>>
    /\ festivosAnio = 0
    /\ enviados = <<>>
    /\ usuariosProcesados = 0
    /\ usuariosConPendientes = 0
    /\ usuariosAlDia = 0
    /\ listaUsuariosAlDia = <<>>
    /\ listaUsuariosConPendientes = <<>>
    /\ bitacora = <<>>
    /\ ReposoNotificar
    /\ ReposoSemanas
    /\ ReposoDespacho
    /\ ReposoLote
    /\ invocaciones = <<>>

\* what no action of the concurrent runs touches
SinCambiosFueraDeHilos ==
    UNCHANGED <<varsFechas, varsDiario, varsResumen, varsEntornoMasivo, pc,
                listaConsultada, funcionarios, indice, periodo, festivosAnio,
                varsContadores, bitacora, varsNotificar, varsSemanas, varsCheckMe,
                evento, ejecutados, ecos, varsLote>>

\* the locals of a run before its first step; error is the exception its
\* catch received, usersInfoOk and consultaOk tell which requests failed;
\* origen of a message sent is the run whose step sent it
LocalesIniciales(e) ==
    [evento |-> e, paso |-> "despacho", grupos |-> <<>>, indiceSemana |-> 1,
     reportes |-> <<>>, sabados |-> 0, numFestivos |-> 0, consultas |-> 0,
     error |-> "", usersInfoOk |-> TRUE, consultaOk |-> TRUE]

Decir(i, message) ==
    [mensaje |-> enHilo(message, invocaciones[i].evento.ts), origen |-> i]

\* Slack delivers the direct message of a person and bot.event('message')
\* starts for it
RecibirMensaje ==
    /\ eventosRecibidos < MaxInvocaciones
    /\ eventosRecibidos' = eventosRecibidos + 1
    /\ \E usuario \in UsuariosHilos, texto \in TextosHilos :
           invocaciones' =
               Append(invocaciones,
                      LocalesIniciales([ts |-> TsDe(eventosRecibidos + 1),
                                        user |-> usuario, text |-> texto,
                                        channel_type |-> "im", bot_id |-> "",
                                        subtype |-> ""]))
    /\ UNCHANGED enviados
    /\ SinCambiosFueraDeHilos

\* execute of ComandoReporteMensual in the run of event i, r being what it
\* prepared: the error message of its catch, or the header (and the notice of
\* no working days)
EjecutarReporteMensual(i, usersInfoOk, consultaOk, r) ==
    LET TerminarEn(paso) ==
            invocaciones' =
                [invocaciones EXCEPT ![i] =
                    [evento |-> invocaciones[i].evento, paso |-> paso,
                     grupos |-> r.grupos, indiceSemana |-> 1, reportes |-> r.reportes,
                     sabados |-> r.sabados, numFestivos |-> r.numFestivos,
                     consultas |-> r.consultas, error |-> r.error,
                     usersInfoOk |-> usersInfoOk, consultaOk |-> consultaOk]]
    IN  IF r.error # ""
        THEN /\ TerminarEn("fin")
             /\ enviados' = Append(enviados, Decir(i, MensajeSay("error", <<r.error>>)))
        ELSE IF Len(r.grupos) = 0
        THEN /\ TerminarEn("fin")
             /\ enviados' = enviados \o
                    << Decir(i, MensajeSay("inicio", r.encabezado)),
                       Decir(i, MensajeSay("sinDias", <<>>)) >>
        ELSE /\ TerminarEn("semanas")
             /\ enviados' = Append(enviados, Decir(i, MensajeSay("inicio", r.encabezado)))

\* the handler of the event up to the first await that yields: the reply of
\* the dispatcher, the help message of ComandoAyuda, or execute of
\* ComandoReporteMensual up to its header
Despachar(i) ==
    /\ invocaciones[i].paso = "despacho"
    /\ LET e == invocaciones[i].evento
           fabrica == handlerFactory(commandText(e.text))
           Terminar == invocaciones' = [invocaciones EXCEPT ![i].paso = "fin"]
       IN  IF ~EsMensajeDirecto(e)
           THEN Terminar /\ UNCHANGED enviados
           ELSE IF fabrica = <<>>
           THEN /\ Terminar
                /\ enviados' = Append(enviados,
                       Decir(i, MensajeSay("Comando no reconocido", ComandosDeLaAyuda)))
           ELSE IF fabrica[1] = "heredada"
           THEN /\ Terminar
                /\ enviados' = Append(enviados,
                       Decir(i, MensajeSay("Error al procesar el comando", <<"TypeError">>)))
           ELSE IF fabrica[2] = "CheckCommands"
           THEN /\ Terminar
                /\ enviados' = Append(enviados, Decir(i, MensajeSay("ayuda", <<>>)))
           ELSE IF fabrica[2] = "CheckMeCommand"
           THEN \E usersInfoOk, consultaOk, reportesOk, intervaloInvertido \in BOOLEAN :
                  EjecutarReporteMensual(i, usersInfoOk, consultaOk,
                      PrepararReporteMensual(e.user, usersInfoOk, consultaOk,
                                             reportesOk, intervaloInvertido))
           ELSE Terminar /\ UNCHANGED enviados
    /\ UNCHANGED eventosRecibidos
    /\ SinCambiosFueraDeHilos

\* one turn of the loop over the weeks in the run of event i
EnviarSemanaDe(i) ==
    /\ invocaciones[i].paso = "semanas"
    /\ invocaciones[i].indiceSemana <= Len(invocaciones[i].grupos)
    /\ enviados' = Append(enviados,
           Decir(i, MensajeDeSemana(invocaciones[i].grupos, invocaciones[i].indiceSemana)))
    /\ invocaciones' =
           [invocaciones EXCEPT ![i].indiceSemana = invocaciones[i].indiceSemana + 1]
    /\ UNCHANGED eventosRecibidos
    /\ SinCambiosFueraDeHilos

\* the monthly summary of the run of event i, its last message
EnviarResumenDe(i) ==
    /\ invocaciones[i].paso = "semanas"
    /\ invocaciones[i].indiceSemana > Len(invocaciones[i].grupos)
    /\ enviados' = Append(enviados,
           Decir(i, MensajeSay("resumen",
                               <<calcularResumenMensual(invocaciones[i].reportes,
                                                        invocaciones[i].sabados,
                                                        invocaciones[i].numFestivos)>>)))
    /\ invocaciones' = [invocaciones EXCEPT ![i].paso = "fin"]
    /\ UNCHANGED eventosRecibidos
    /\ SinCambiosFueraDeHilos

NextHilos ==
    \/ RecibirMensaje
    \/ \E i \in 1..Len(invocaciones) : Despachar(i)
    \/ \E i \in 1..Len(invocaciones) : EnviarSemanaDe(i)
    \/ \E i \in 1..Len(invocaciones) : EnviarResumenDe(i)

SpecHilos == InitHilos /\ [][NextHilos]_vars

----------------------------------------------------------------------------
(* Claims about the calendar rules *)

Elementos(lista) == {lista[i] : i \in 1..Len(lista)}

\* C1: obtenerDiasLaborables(start, end, t, H) holds a date d of [start, end]
\* iff d is not a Sunday, d as yyyy-MM-dd is not in H and esSabadoDescanso(d, t)
\* is false; it holds no date outside the range and no Sunday.
C1_DiasLaborables ==
    "obtenerDiasLaborables" \in llamadas =>
        /\ Elementos(diasLaborables) \subseteq fechaInicio..fechaFin
        /\ \A d \in fechaInicio..fechaFin :
               d \in Elementos(diasLaborables) <=>
                   /\ getDay(d) # 0
                   /\ format(d) \notin Elementos(festivos)
                   /\ ~esSabadoDescanso(archivo, d, tipoDescanso)
        /\ \A d \in Elementos(diasLaborables) : getDay(d) # 0

\* a call over a range that holds a Sunday, a listed holiday and a rest
\* Saturday, and returned some but not all of its days
C1_Witness ==
    /\ "obtenerDiasLaborables" \in llamadas
    /\ \E d \in fechaInicio..fechaFin : getDay(d) = 0
    /\ \E d \in fechaInicio..fechaFin : getDay(d) # 0 /\ format(d) \in Elementos(festivos)
    /\ \E d \in fechaInicio..fechaFin : esSabadoDescanso(archivo, d, tipoDescanso)
    /\ Len(diasLaborables) > 0

\* C6: for every Saturday and rotation type the three implementations of
\* esSabadoDescanso return the same value.
C6_MismaRegla ==
    ("esSabadoDescanso" \in llamadas /\ getDay(fechaInicio) = 6) =>
        /\ descanso["checkAll"] = descanso["checkAllPast"]
        /\ descanso["checkAll"] = descanso["checkMe"]


\* C26: for each rotation type the rest Saturdays alternate: a Saturday and
\* the Saturday seven days later are never both rest Saturdays nor both
\* working Saturdays, in each of the three files.
C26_SabadosAlternos ==
    ("esSabadoDescanso" \in llamadas /\ getDay(fechaInicio) = 6) =>
        \A a \in Archivos :
            descanso[a] # esSabadoDescanso(a, fechaInicio + 7, tipoDescanso)

\* ISO 8601 week number of f: the week of a date is the week of its Thursday,
\* and the n-th Thursday of a year lies in week n
SemanaISO(f) ==
    LET jueves == startOfWeek(f) + 3
        y == getFullYear(jueves)
    IN  Cardinality({j \in NuevaFecha(y, 1, 1)..jueves : getDay(j) = 4})

\* week number of f when weeks start on Monday and week 1 is the week that
\* contains January 1: the n-th Sunday of a year ends week n
SemanaDeEnero1(f) ==
    LET domingo == startOfWeek(f) + 6
        y == getFullYear(domingo)
    IN  Cardinality({j \in NuevaFecha(y, 1, 1)..domingo : getDay(j) = 0})

\* C7 as stated: on a Saturday, checkMe.js and checkAllPast.js rest type 1
\* exactly on odd ISO weeks and type 2 exactly on even ISO weeks.
C7_SemanaISO ==
    ("esSabadoDescanso" \in llamadas /\ getDay(fechaInicio) = 6) =>
        LET impar == SemanaISO(fechaInicio) % 2 = 1
            regla == IF tipoDescanso = 1 THEN impar ELSE ~impar
        IN  descanso["checkMe"] = regla /\ descanso["checkAllPast"] = regla

\* C7 amended: on a Saturday, checkMe.js and checkAllPast.js rest type 1
\* exactly on odd and type 2 exactly on even week numbers, the weeks starting
\* on Monday and week 1 being the week that contains January 1.
C7_SemanaDeEnero1 ==
    ("esSabadoDescanso" \in llamadas /\ getDay(fechaInicio) = 6) =>
        LET impar == SemanaDeEnero1(fechaInicio) % 2 = 1
            regla == IF tipoDescanso = 1 THEN impar ELSE ~impar
        IN  descanso["checkMe"] = regla /\ descanso["checkAllPast"] = regla

\* esSabadoDescanso has run on a Saturday of the first week of a year whose
\* ISO week number differs from the number the code uses, and on it type 1 rests
C7_Witness ==
    /\ "esSabadoDescanso" \in llamadas
    /\ getDay(fechaInicio) = 6
    /\ getMonth(fechaInicio) = 1 /\ getDate(fechaInicio) <= 7
    /\ SemanaISO(fechaInicio) # SemanaDeEnero1(fechaInicio)
    /\ tipoDescanso = 1 /\ descanso["checkMe"]

----------------------------------------------------------------------------
(* Claims about the daily record and the summaries *)

RECURSIVE MinutosDeFilas(_)
\* 60 x hours + minutes, summed over the rows
MinutosDeFilas(filas) ==
    IF filas = {} THEN 0
    ELSE LET r == CHOOSE x \in filas : TRUE
         IN  60 * r.TickActConsHor + r.TickActConsMin + MinutosDeFilas(filas \ {r})

FilasDelDia == {r \in tabla : r.FunCod = funCod /\ r.TickFechaProg = fechaReporte}
MinutosRegistrados == MinutosDeFilas(FilasDelDia)
MinutosRequeridos == IF getDay(fechaReporte) = 6 THEN 180 ELSE 510

C2_Resultado ==
    /\ reporte.esSabado = (getDay(fechaReporte) = 6)
    /\ reporte.cumpleRequerimiento = (MinutosRegistrados >= MinutosRequeridos)
    /\ 60 * reporte.horas + reporte.minutos = MinutosRegistrados
    /\ FilasDelDia = {} =>
           ~reporte.cumpleRequerimiento /\ reporte.horas = 0 /\ reporte.minutos = 0
    /\ (getDay(fechaReporte) # 6 /\ MinutosRegistrados = 510) =>
           reporte.cumpleRequerimiento /\ reporte.faltante = <<>>

\* C2: every call of obtenerReporteDiario(funCod, date) requires 180 minutes
\* on a Saturday and 510 otherwise, and passes iff the minutes logged in that
\* employee's rows of that date reach the requirement; no rows count as 0 and
\* fail; exactly 510 on a non-Saturday passes with an empty shortfall text.
C2_ReporteDiario == [][ObtenerReporteDiario => C2_Resultado']_vars

\* a call for a non-Saturday on which two rows, 7h 59m and 0h 31m, add up to
\* exactly 510 minutes, while the table holds rows of the other employee and
\* of the other date
C2_Witness ==
    /\ reporte # <<>>
    /\ getDay(fechaReporte) # 6
    /\ Cardinality(FilasDelDia) = 2 /\ MinutosRegistrados = 510
    /\ tabla # FilasDelDia
    /\ reporte.cumpleRequerimiento /\ reporte.horas = 8 /\ reporte.minutos = 30

C9_Resultado ==
    /\ ~reporte.cumpleRequerimiento =>
           /\ Len(reporte.faltante) = 2
           /\ 60 * reporte.faltante[1] + reporte.faltante[2]
                  = MinutosRequeridos - MinutosRegistrados
           /\ reporte.faltante[1] >= 0
           /\ reporte.faltante[2] >= 0 /\ reporte.faltante[2] <= 59
    /\ (FilasDelDia # {} /\ MinutosRegistrados = 450 /\ getDay(fechaReporte) # 6) =>
           reporte.faltante = <<1, 0>>
    /\ (FilasDelDia = {} /\ getDay(fechaReporte) = 6) => reporte.faltante = <<3, 0>>
    /\ (FilasDelDia = {} /\ getDay(fechaReporte) # 6) => reporte.faltante = <<8, 30>>

\* C9: whenever the daily record fails, its shortfall 'Faltan Xh Ym' has
\* 60 X + Y = required - logged minutes, X >= 0 and 0 <= Y <= 59; 450 minutes
\* on a non-Saturday give 1h 0m, no record gives 3h 0m on a Saturday and
\* 8h 30m otherwise.
C9_Faltante == [][ObtenerReporteDiario => C9_Resultado']_vars

\* a failed record whose shortfall borrows from the hours: 7h 59m logged on
\* a non-Saturday, 0h 31m missing
C9_Witness ==
    /\ reporte # <<>>
    /\ getDay(fechaReporte) # 6
    /\ MinutosRegistrados = 479
    /\ ~reporte.cumpleRequerimiento /\ reporte.faltante = <<0, 31>>

RECURSIVE MinutosDeReportes(_)
MinutosDeReportes(dias) ==
    IF dias = <<>> THEN 0
    ELSE 60 * Head(dias).horas + Head(dias).minutos + MinutosDeReportes(Tail(dias))

NumSabados(dias) == Cardinality({i \in 1..Len(dias) : getDay(dias[i].fechaObj) = 6})

\* C3: calcularResumenSemanal(records) reports the sum of the records' logged
\* minutes as hours and minutes (0..59), requires 510 per non-Saturday record
\* plus 180 per Saturday record, and passes iff the total logged reaches the
\* total required; the empty list gives 0 logged, 0 required and pass.
C3_ResumenSemanal ==
    resumenSemanal # <<>> =>
        LET r == resumenSemanal[1]
            registrado == MinutosDeReportes(reportesDiarios)
            requerido == 510 * (Len(reportesDiarios) - NumSabados(reportesDiarios))
                             + 180 * NumSabados(reportesDiarios)
        IN  /\ 60 * r.totalHoras + r.totalMinutos = registrado
            /\ r.totalMinutos >= 0 /\ r.totalMinutos <= 59
            /\ 60 * r.horasRequeridas[1] + r.horasRequeridas[2] = requerido
            /\ r.cumpleRequerimiento = (registrado >= requerido)
            /\ reportesDiarios = <<>> =>
                   /\ r.totalHoras = 0 /\ r.totalMinutos = 0
                   /\ r.horasRequeridas = <<0, 0>>
                   /\ r.cumpleRequerimiento

\* a summary that passes on the totals although one of its daily records
\* failed, over a list with a Saturday and a non-Saturday record
C3_Witness ==
    /\ resumenSemanal # <<>>
    /\ resumenSemanal[1].cumpleRequerimiento
    /\ \E i \in 1..Len(reportesDiarios) : ~reportesDiarios[i].cumpleRequerimiento
    /\ \E i \in 1..Len(reportesDiarios) : reportesDiarios[i].esSabado
    /\ \E i \in 1..Len(reportesDiarios) : ~reportesDiarios[i].esSabado

\* every daily record of the list passed its own requirement
TodosLosDiasCumplen ==
    \A i \in 1..Len(reportesDiarios) : reportesDiarios[i].cumpleRequerimiento

\* C24 as stated: sooner or later a week summary shows fail although every
\* daily record in it passed.
C24_SemanaFallaConDiasCumplidos ==
    <>(/\ resumenSemanal # <<>>
       /\ TodosLosDiasCumplen
       /\ ~resumenSemanal[1].cumpleRequerimiento)

\* C24 (amended): the week flag is recomputed from the totals of the week,
\* and a week whose daily records all passed never shows fail, however
\* marginally each day passed.
C24_SemanaDeDiasCumplidos ==
    (resumenSemanal # <<>> /\ TodosLosDiasCumplen) =>
        resumenSemanal[1].cumpleRequerimiento

\* a week of three records, each logging exactly the time required that day
C24_Witness ==
    /\ resumenSemanal # <<>>
    /\ Len(reportesDiarios) = MaxReportes
    /\ \A i \in 1..Len(reportesDiarios) :
           /\ reportesDiarios[i].cumpleRequerimiento
           /\ 60 * reportesDiarios[i].horas + reportesDiarios[i].minutos =
                  (IF reportesDiarios[i].esSabado THEN 180 ELSE 510)
    /\ \E i \in 1..Len(reportesDiarios) : reportesDiarios[i].esSabado
    /\ resumenSemanal[1].cumpleRequerimiento

\* C10: calcularResumenMensual(records, sabadosExcluidos, festivosExcluidos)
\* returns the total, the required time and the pass flag of
\* calcularResumenSemanal(records), whatever the two counts are, and hands the
\* two counts through unchanged.
C10_ResumenMensual ==
    (resumenMensual # <<>> /\ resumenSemanal # <<>>) =>
        LET m == resumenMensual[1]
            r == resumenSemanal[1]
        IN  /\ m.totalHoras = r.totalHoras
            /\ m.totalMinutos = r.totalMinutos
            /\ m.horasRequeridas = r.horasRequeridas
            /\ m.cumpleRequerimiento = r.cumpleRequerimiento
            /\ m.sabadosExcluidos = sabadosExcluidos
            /\ m.festivosExcluidos = festivosExcluidos

\* both summaries computed for a list of three records, with two different
\* exclusion counts, the monthly one failing
C10_Witness ==
    /\ resumenMensual # <<>> /\ resumenSemanal # <<>>
    /\ Len(reportesDiarios) = 3
    /\ sabadosExcluidos = 2 /\ festivosExcluidos = 1
    /\ ~resumenMensual[1].cumpleRequerimiento

----------------------------------------------------------------------------
(* Claims about the broadcast commands *)

\* whether the total logged over the working days of the period reaches the
\* total required, for the employee of a log entry
CumpleMensual(cod, tipo) ==
    LET dias == obtenerDiasLaborables(archivo, periodo[1], periodo[2], tipo,
                                      obtenerFestivosColombia(archivo, festivosAnio))
    IN  calcularResumenSemanal(ReportesDelPeriodo(cod, dias)).cumpleRequerimiento

\* C4: in both broadcast commands an employee who resolves to a Slack user is
\* sent a report exactly when calcularResumenMensual gives
\* cumpleRequerimiento = false for the period, and is counted as compliant
\* and sent nothing otherwise, whatever the daily records say.
C4_EnvioSegunResumenMensual ==
    \A i \in 1..Len(bitacora) :
        bitacora[i].resultado \in {"alDia", "enviado"} =>
            ( bitacora[i].resultado = "enviado"
              <=> ~CumpleMensual(bitacora[i].funCod, bitacora[i].tipoDescanso) )

\* the caller's Slack name is the FunDirEmail of an active employee whose
\* FunCod is in the allow-list
Autorizado ==
    \E i \in 1..Len(TablaFuncionarios) :
        /\ TablaFuncionarios[i].FunEst = "A"
        /\ TablaFuncionarios[i].FunDirEmail = llamador
        /\ TablaFuncionarios[i].FunCod \in {"LUDWINGV", "KARLAC", "10", "11", "8"}

HayReporteEnviado == \E i \in 1..Len(enviados) : enviados[i].tipo = "reporte"

NadaMasOcurre ==
    /\ ~listaConsultada
    /\ funcionarios = <<>>
    /\ bitacora = <<>>
    /\ usuariosProcesados = 0 /\ usuariosConPendientes = 0 /\ usuariosAlDia = 0

SoloParaAutorizados ==
    (listaConsultada \/ HayReporteEnviado \/ funcionarios # <<>>) => Autorizado

\* C5 (as stated): a broadcast command posts no report and does not fetch the
\* employee list unless the caller is an active employee of the allow-list;
\* in every other case the caller receives exactly one "access denied"
\* message and nothing else happens.
C5_SoloAccesoDenegado ==
    /\ SoloParaAutorizados
    /\ (pc = "fin" /\ ~Autorizado) =>
           /\ enviados = <<MensajeSay("denegado", <<>>)>>
           /\ NadaMasOcurre

\* C5 (amended): a broadcast command posts no report and does not fetch the
\* employee list unless the caller is an active employee of the allow-list;
\* in every other case the caller receives exactly one message, "access
\* denied" or, when users.info or the FunCod query fails, the error block,
\* and nothing else happens.
C5_Autorizacion ==
    /\ SoloParaAutorizados
    /\ (pc = "fin" /\ ~Autorizado) =>
           /\ \/ enviados = <<MensajeSay("denegado", <<>>)>>
              \/ enviados = <<MensajeSay("error", <<"users.info">>)>>
              \/ enviados = <<MensajeSay("error", <<"query">>)>>
           /\ NadaMasOcurre

\* a caller outside the allow-list whose lookup failed
C5_Witness ==
    /\ pc = "fin"
    /\ ~Autorizado
    /\ llamador = "ana"
    /\ enviados = <<MensajeSay("error", <<"users.info">>)>>

\* C8: crm-check-all-admin (checkAll.js) evaluates the current month, from its
\* first day through the day before the command is run, with the holiday list
\* of the current year.
C8_MesActual ==
    (archivo = "checkAll" /\ periodo # <<>>) =>
        /\ periodo = <<startOfMonth(hoy), hoy - 1>>
        /\ festivosAnio = getFullYear(hoy)

\* the positions of enviados that hold a message of the given kind
PosicionesDe(tipo) == {i \in 1..Len(enviados) : enviados[i].tipo = tipo}

\* C11: in a broadcast an exception raised for one employee (a failed daily
\* query or a failed chat.postMessage) stays inside the loop: the loop visits
\* every employee of the list in order, and the final summary is sent to the
\* administrator exactly once, after the last employee.
C11_ErroresEnElBucle ==
    /\ pc = "bucle" =>
           /\ Len(bitacora) = indice - 1
           /\ PosicionesDe("resumen") = {}
           /\ PosicionesDe("error") = {}
    /\ \A i \in 1..Len(bitacora) : bitacora[i].funCod = funcionarios[i].funCod
    /\ (pc = "fin" /\ periodo # <<>>) =>
           /\ Len(bitacora) = Len(funcionarios)
           /\ PosicionesDe("resumen") = {Len(enviados)}
           /\ PosicionesDe("error") = {}

\* a finished broadcast in which a query failed for one employee, the post
\* failed for another and a later employee still got a report
C11_Witness ==
    /\ pc = "fin"
    /\ \E i, j, k \in 1..Len(bitacora) :
           /\ i < k /\ j < k
           /\ bitacora[i].resultado = "error"
           /\ bitacora[j].resultado = "errorEnvio"
           /\ bitacora[k].resultado = "enviado"
    /\ enviados[Len(enviados)].tipo = "resumen"

\* the report messages posted to the Slack user of an employee
ReportesPara(username) ==
    {i \in 1..Len(enviados) :
        /\ enviados[i].tipo = "reporte"
        /\ \E m \in miembros : m.name = toLowerCase(username) /\ m.id = enviados[i].canal}

\* every employee resolved in Slack and no request failed
BroadcastSinFallos ==
    /\ pc = "fin"
    /\ periodo # <<>>
    /\ \A i \in 1..Len(bitacora) : bitacora[i].resultado \in {"alDia", "enviado"}

\* C12: in a broadcast in which every employee resolves in Slack and no step
\* fails, an employee receives exactly one report if the monthly total is
\* below the requirement and none otherwise, the administrator receives
\* exactly one final summary, and in it compliant + with shortfalls = total.
C12_UnReportePorIncumplido ==
    BroadcastSinFallos =>
        /\ \A i \in 1..Len(funcionarios) :
               Cardinality(ReportesPara(funcionarios[i].username)) =
                   IF CumpleMensual(funcionarios[i].funCod, funcionarios[i].tipoDescanso)
                   THEN 0 ELSE 1
        /\ Cardinality(PosicionesDe("resumen")) = 1
        /\ LET resumen == enviados[Len(enviados)].datos[1]
           IN  /\ resumen.total = Len(funcionarios)
               /\ resumen.alDia + resumen.conPendientes = resumen.total
               /\ resumen.alDia =
                      Cardinality({i \in 1..Len(funcionarios) :
                          CumpleMensual(funcionarios[i].funCod,
                                        funcionarios[i].tipoDescanso)})


\* C22: an unauthorized caller of a broadcast command whose lookups succeed
\* gets the same reply whether no active employee record matches the caller
\* or the record found is outside the allow-list: the one 'access denied'
\* message, which carries nothing about the caller, and no other action.
C22_MismaRespuestaDenegada ==
    (pc = "fin" /\ ~Autorizado /\ enviados # <<>> /\ enviados[1].tipo # "error") =>
        /\ enviados = <<[canal |-> "say", tipo |-> "denegado", datos |-> <<>>]>>
        /\ NadaMasOcurre

\* a caller with an active employee record outside the allow-list
C22_Witness ==
    /\ pc = "fin"
    /\ llamador = "ana"
    /\ Len(ConsultaFunCod(llamador)) = 1
    /\ ~tienePermisosAdministrador(ConsultaFunCod(llamador)[1].FunCod)
    /\ enviados = <<[canal |-> "say", tipo |-> "denegado", datos |-> <<>>]>>

\* the reports posted to employees in the run
ReportesPublicados == SelectSeq(enviados, LAMBDA m : m.tipo = "reporte")

\* C25: the number the final summary gives as reports sent (Procesados in
\* checkAll.js, Reportes enviados (con pendientes) in checkAllPast.js) is
\* the number of report messages posted to employees in the run.
C25_ReportesEnviados ==
    (pc = "fin" /\ enviados # <<>> /\ enviados[Len(enviados)].tipo = "resumen") =>
        LET resumen == enviados[Len(enviados)].datos[1]
            informados == IF archivo = "checkAll" THEN resumen.procesados
                          ELSE resumen.conPendientes
        IN  informados = Len(ReportesPublicados)

----------------------------------------------------------------------------
(* Claims about the notification relay *)

\* the request being handled and what the data say about it
Pedido == solicitud[1]
TareasDelPedido == {t \in TablaTareas : t.TarSec = Pedido.TarSec}
TareaDelPedido == CHOOSE t \in TareasDelPedido : TRUE
TipoValido == Pedido.vaDirigidoA \in {"NotificarAsignado", "NotificarCreador"}

\* the employee code the kind of the request points at
CodigoDestino ==
    IF Pedido.vaDirigidoA = "NotificarAsignado" THEN TareaDelPedido.SubFunCodTar
    ELSE TareaDelPedido.FunCod

\* the aliases stored for active employees with the destination code
AliasDestino ==
    { TablaFuncionarios[i].FunDirEmail : i \in
        { k \in 1..Len(TablaFuncionarios) :
            /\ TablaFuncionarios[k].FunCod = CodigoDestino
            /\ TablaFuncionarios[k].FunEst = "A" } }

\* the Slack users whose name is the alias, compared in lower case
UsuariosDestino == {m \in miembros : \E a \in AliasDestino : m.name = toLowerCase(a)}

TareaInexistente == TareasDelPedido = {}

\* the task exists but a later link is missing
DestinoIrresoluble ==
    /\ TareasDelPedido # {}
    /\ CodigoDestino = "" \/ AliasDestino = {} \/ UsuariosDestino = {}

\* the texts of the failures of the database
FallosDelSistema ==
    { <<"No se pudo consultar la tarea específica.">>,
      <<"No se pudo obtener el username del funcionario.">> }

UltimaRespuesta == respuestas[Len(respuestas)]

\* C13 (as stated): when any link is missing (no such task, no target code,
\* no alias, no Slack user) the relay sends no message and returns a result
\* string, so the endpoint answers 200 with status 'ok' (unless the database
\* fails).
C13_EslabonFaltante200 ==
    [][ (AtenderSolicitud /\ TipoValido /\ (TareaInexistente \/ DestinoIrresoluble)) =>
            /\ enviados' = enviados
            /\ \/ UltimaRespuesta'.status = 200 /\ UltimaRespuesta'.body.status = "ok"
               \/ UltimaRespuesta'.body.message \in FallosDelSistema ]_vars

\* C13 (amended): when the task has no target code, the employee has no
\* stored alias or the alias maps to no Slack user, the relay sends no message
\* and returns a result string, so the endpoint answers 200 with status 'ok';
\* when the task id does not exist it sends no message and throws, so the
\* endpoint answers 500 with status 'error' (a failing query also gives 500).
C13_EslabonFaltante ==
    [][ (AtenderSolicitud /\ TipoValido) =>
            /\ DestinoIrresoluble =>
                   /\ enviados' = enviados
                   /\ \/ UltimaRespuesta'.status = 200 /\ UltimaRespuesta'.body.status = "ok"
                      \/ UltimaRespuesta'.body.message \in FallosDelSistema
            /\ TareaInexistente =>
                   /\ enviados' = enviados
                   /\ UltimaRespuesta'.status = 500
                   /\ UltimaRespuesta'.body.status = "error"
                   /\ \/ UltimaRespuesta'.body.message =
                             <<"La tarea con ID no existe.", Pedido.TarSec>>
                      \/ UltimaRespuesta'.body.message \in FallosDelSistema ]_vars

\* the two answers of the amended claim have been given: 500 for a task that
\* does not exist, 200 for an assignee without an alias
C13_Witness ==
    /\ Len(respuestas) = 2
    /\ enviados = <<>>
    /\ respuestas[1] = RespuestaError(<<"La tarea con ID no existe.", 4>>)
    /\ respuestas[2] =
           RespuestaOk(<<"No se encontró el username de Slack para el funcionario.", "8">>)

\* C14: a call of execute sends at most one Slack message; when it sends one
\* the recipient is the Slack user whose name is the stored alias (in lower
\* case) of the assignee for NotificarAsignado and of the creator for
\* NotificarCreador; any other kind ends in an error with no message sent.
C14_UnDestinatario ==
    [][ AtenderSolicitud =>
            /\ \/ enviados' = enviados
               \/ /\ Len(enviados') = Len(enviados) + 1
                  /\ SubSeq(enviados', 1, Len(enviados)) = enviados
                  /\ TipoValido
                  /\ TareasDelPedido # {}
                  /\ \E m \in UsuariosDestino : enviados'[Len(enviados')].canal = m.id
            /\ ~TipoValido =>
                   /\ enviados' = enviados
                   /\ UltimaRespuesta'.status = 500
                   /\ UltimaRespuesta'.body.status = "error" ]_vars

\* the creator of task 2, whose alias is "Luis", was notified, and a request
\* of another kind ended in an error
C14_Witness ==
    /\ Len(respuestas) = 2
    /\ Len(enviados) = 1
    /\ enviados[1].canal = "U30"
    /\ enviados[1].tipo = "NotificarCreador"
    /\ respuestas[2].status = 500
    /\ respuestas[2].body.message =
           <<"El parámetro 'vaDirigidoA' no es válido.", "NotificarTodos">>

\* the texts execute throws
TextosDeError ==
    { "No se pudo consultar la tarea específica.",
      "La tarea con ID no existe.",
      "El parámetro 'vaDirigidoA' no es válido.",
      "No se pudo obtener el username del funcionario.",
      "No se pudo enviar el mensaje de Slack al usuario." }

UnaRespuestaPorSolicitud ==
    Len(respuestas) = recibidas - (IF solicitud # <<>> THEN 1 ELSE 0)

\* C20 (as stated): the endpoint sends exactly one response per request: 200
\* with {status: 'ok', message} when the relay returns a result, and 500 with
\* status 'error', a message and a detail field when the relay throws.
C20_RespuestaConDetalle ==
    /\ UnaRespuestaPorSolicitud
    /\ \A i \in 1..Len(respuestas) :
           IF respuestas[i].body.message[1] \in TextosDeError
           THEN /\ respuestas[i].status = 500
                /\ respuestas[i].body.status = "error"
                /\ DOMAIN respuestas[i].body = {"status", "message", "detail"}
           ELSE /\ respuestas[i].status = 200
                /\ respuestas[i].body.status = "ok"
                /\ DOMAIN respuestas[i].body = {"status", "message"}

\* C20 (amended): the endpoint sends exactly one response per request: 200
\* with {status: 'ok', message} when the relay returns a result, and 500 with
\* {status: 'error', message}, the message being the text of the error and
\* with no detail field, when the relay throws.
C20_Respuesta ==
    /\ UnaRespuestaPorSolicitud
    /\ \A i \in 1..Len(respuestas) :
           IF respuestas[i].body.message[1] \in TextosDeError
           THEN /\ respuestas[i].status = 500
                /\ respuestas[i].body.status = "error"
                /\ DOMAIN respuestas[i].body = {"status", "message"}
           ELSE /\ respuestas[i].status = 200
                /\ respuestas[i].body.status = "ok"
                /\ DOMAIN respuestas[i].body = {"status", "message"}

\* a request answered 200 with a "no recipient" result and one answered 500
\* after chat.postMessage failed
C20_Witness ==
    /\ Len(respuestas) = 2
    /\ recibidas = 2
    /\ respuestas[1] =
           RespuestaOk(<<"La tarea no tiene un destinatario válido para la acción.",
                         2, "NotificarAsignado">>)
    /\ respuestas[2] =
           RespuestaError(<<"No se pudo enviar el mensaje de Slack al usuario.", "U20">>)

----------------------------------------------------------------------------
(* Claims about the grouping by weeks *)

RECURSIVE Aplanar(_)
Aplanar(grupos) ==
    IF grupos = <<>> THEN <<>>
    ELSE Aplanar(SubSeq(grupos, 1, Len(grupos) - 1)) \o grupos[Len(grupos)]

\* how many times a record occurs in a list
Veces(registro, lista) == Cardinality({i \in 1..Len(lista) : lista[i] = registro})

\* the Monday on or before a date
LunesDe(fecha) == fecha - ((getDay(fecha) + 6) % 7)

\* C17: flattening agruparPorSemanas(records) gives exactly the records of
\* the input: the same number of records, and every record as many times as
\* in the input, so that each is in exactly one week group.
C17_AplanarAgrupar ==
    semanas # <<>> =>
        LET plano == Aplanar(semanas[1])
        IN  /\ Len(plano) = Len(reportesDiarios)
            /\ \A i \in 1..Len(reportesDiarios) :
                   Veces(reportesDiarios[i], plano) =
                       Veces(reportesDiarios[i], reportesDiarios)

\* four records out of order over three weeks, one of them twice
C17_Witness ==
    /\ semanas # <<>>
    /\ Len(reportesDiarios) = 4
    /\ Len(semanas[1]) = 3
    /\ reportesDiarios[1] = reportesDiarios[4]
    /\ reportesDiarios[2].fechaObj < reportesDiarios[1].fechaObj

\* C18: in the result of agruparPorSemanas all records of a group have the
\* same Monday on or before their date, no two groups share that Monday, and
\* the groups are in strictly ascending order of week start, whatever the
\* order of the input; the empty input gives the empty list.
C18_SemanasOrdenadas ==
    semanas # <<>> =>
        LET grupos == semanas[1]
        IN  /\ \A g \in 1..Len(grupos) :
                   /\ Len(grupos[g]) > 0
                   /\ \A i \in 1..Len(grupos[g]) :
                          LunesDe(grupos[g][i].fechaObj) = LunesDe(grupos[g][1].fechaObj)
            /\ \A g, h \in 1..Len(grupos) :
                   g < h => LunesDe(grupos[g][1].fechaObj) < LunesDe(grupos[h][1].fechaObj)
            /\ reportesDiarios = <<>> => grupos = <<>>

\* records given latest week first, with a Sunday in the middle week
C18_Witness ==
    /\ semanas # <<>>
    /\ Len(reportesDiarios) = 4
    /\ Len(semanas[1]) = 3
    /\ LunesDe(reportesDiarios[1].fechaObj) > LunesDe(reportesDiarios[2].fechaObj)
    /\ LunesDe(reportesDiarios[2].fechaObj) > LunesDe(reportesDiarios[3].fechaObj)
    /\ getDay(reportesDiarios[2].fechaObj) = 0

----------------------------------------------------------------------------
(* Claims about crm-check-me, checked on SpecCheckMe.                       *)

\* the messages of the weeks among the messages sent
MensajesDeSemana == SelectSeq(enviados, LAMBDA m : m.tipo = "semana")

\* the dates of the records of the weekly messages, in the order sent
FechasReportadas ==
    LET registros == Aplanar([i \in 1..Len(MensajesDeSemana) |-> MensajesDeSemana[i].datos[2]])
    IN  [i \in 1..Len(registros) |-> registros[i].fechaObj]

\* the command resolved the employee and built the reports
ReporteGenerado == pc \in {"semanas", "fin"} /\ funCod # ""

\* C15: when crm-check-me has resolved the employee and the period has at
\* least one working day, the messages sent are the header, then the week
\* groups one per message in ascending week order, numbered from 1, and,
\* once the command has ended, the monthly summary as the last message:
\* number of weeks + 2 messages, whether or not the employee is compliant.
C15_EncabezadoSemanasResumen ==
    (ReporteGenerado /\ Len(diasLaborables) >= 1) =>
        LET grupos == semanas[1]
            n == Len(grupos)
        IN  /\ n >= 1
            /\ Len(enviados) >= 1
            /\ enviados[1].tipo = "inicio"
            /\ \A i \in 2..Len(enviados) :
                   IF i <= n + 1
                   THEN /\ enviados[i].tipo = "semana"
                        /\ enviados[i].datos[1] = i - 1
                        /\ enviados[i].datos[2] = grupos[i - 1]
                        /\ i > 2 =>
                             LunesDe(enviados[i - 1].datos[3]) < LunesDe(enviados[i].datos[3])
                   ELSE enviados[i].tipo = "resumen"
            /\ pc = "semanas" => Len(enviados) = indice
            /\ pc = "fin" => /\ Len(enviados) = n + 2
                             /\ enviados[n + 2].tipo = "resumen"

C15_Witness ==
    /\ pc = "fin"
    /\ funCod # ""
    /\ Len(semanas[1]) >= 2
    /\ Len(enviados) = Len(semanas[1]) + 2
    /\ enviados[Len(enviados)].tipo = "resumen"
    /\ \E i \in 1..Len(reportesDiarios) : ~reportesDiarios[i].cumpleRequerimiento

\* C16: the days crm-check-me reports are exactly the working days from the
\* first day of the current month to yesterday, in ascending order; today
\* and later days are never reported.
C16_DelPrimeroHastaAyer ==
    (pc = "fin" /\ funCod # "") =>
        LET primerDiaMes == startOfMonth(hoy)
            ayer == hoy - 1
            esperados == {d \in primerDiaMes..ayer :
                             EsLaborable("checkMe", d, tipoDescanso, festivos)}
        IN  /\ Elementos(FechasReportadas) = esperados
            /\ \A i \in 1..Len(FechasReportadas) : FechasReportadas[i] < hoy
            /\ \A i, j \in 1..Len(FechasReportadas) :
                   i < j => FechasReportadas[i] < FechasReportadas[j]


\* C29: in the report of crm-check-me the exclusion counts partition the
\* days of the period that are not working days: working days + Sundays +
\* sabadosExcluidos + festivosExcluidos is the number of days of the period,
\* with festivosExcluidos no more than the holidays of the period and
\* sabadosExcluidos no more than its rest Saturdays.
C29_ParticionDeExcluidos ==
    (ReporteGenerado /\ periodo[1] <= periodo[2]) =>
        LET dias == periodo[1]..periodo[2]
            domingos == Cardinality({d \in dias : isSunday(d)})
            feriados == Cardinality({d \in dias : includes(festivos, format(d))})
            sabados == Cardinality({d \in dias :
                                       esSabadoDescanso("checkMe", d, tipoDescanso)})
        IN  /\ Len(diasLaborables) + domingos + sabadosExcluidos + festivosExcluidos
                   = Cardinality(dias)
            /\ festivosExcluidos <= feriados
            /\ sabadosExcluidos <= sabados

----------------------------------------------------------------------------
(* Claims about the direct-message dispatcher, checked on SpecDespacho.    *)

\* the command a text names once lower-cased and trimmed, "" when none
ComandoNombrado(texto) ==
    LET t == commandText(texto)
    IN  IF t = <<"i", "n", "f", "o">> \/ t = <<"a", "y", "u", "d", "a">>
        THEN "CheckCommands"
        ELSE IF t = <<"u", "n", "i", "c", "h", "e", "c", "k">> THEN "CheckMyProfile"
        ELSE IF t = <<"c", "r", "m", "-", "c", "h", "e", "c", "k", "-", "m", "e">>
        THEN "CheckMeCommand"
        ELSE IF t = <<"c", "r", "m", "-", "c", "h", "e", "c", "k", "-", "m", "e",
                      "-", "p", "a", "s", "t">>
        THEN "CheckMePastCommand"
        ELSE IF t = <<"c", "r", "m", "-", "c", "h", "e", "c", "k", "-", "a", "l", "l",
                      "-", "a", "d", "m", "i", "n">>
        THEN "CheckAllCommand"
        ELSE IF t = <<"c", "r", "m", "-", "c", "h", "e", "c", "k", "-", "a", "l", "l",
                      "-", "a", "d", "m", "i", "n", "-", "p", "a", "s", "t">>
        THEN "CheckAllPastCommand"
        ELSE ""

\* C19: when the dispatcher handles a direct message of a human user, the
\* text lower-cased and trimmed selects the handler: the text of a command
\* runs the handler of that command, and every other text runs no handler
\* and gets exactly the reply 'Comando no reconocido' with the help text.
C19_TextoSeleccionaManejador ==
    [][ (evento # <<>> /\ EsMensajeDirecto(evento[1])) =>
            IF ComandoNombrado(evento[1].text) # ""
            THEN ejecutados' = Append(ejecutados, ComandoNombrado(evento[1].text))
            ELSE /\ ejecutados' = ejecutados
                 /\ Len(enviados') = Len(enviados) + 1
                 /\ enviados'[Len(enviados')].tipo = "Comando no reconocido"
                 /\ enviados'[Len(enviados')].datos = <<eventosRecibidos>> \o ComandosDeLaAyuda
      ]_vars

\* C30: an event that is not a direct message, that carries a bot_id or
\* that has a subtype gets no reply and runs no command; the replies of the
\* bot, which come back with its bot_id, therefore get no reply, and the
\* bot never sends more replies than users sent events.
C30_SinRespuestaABots ==
    /\ [][ (evento # <<>> /\ ( \/ evento[1].channel_type # "im"
                              \/ evento[1].bot_id # ""
                              \/ evento[1].subtype # "" )) =>
               (enviados' = enviados /\ ejecutados' = ejecutados) ]_vars
    /\ [](Len(enviados) <= eventosRecibidos)

\* a reply of the bot came back as an event and was handled
C30_Witness ==
    /\ ecos = 1
    /\ evento = <<>>
    /\ Len(enviados) = 1
    /\ eventosRecibidos = 1

----------------------------------------------------------------------------
(* Claims about the batch variant of the relay, checked on SpecLote.       *)

\* a message of the running batch reached the employee with this code
EntregadoA(cod) ==
    \E i \in 1..Len(TablaFuncionarios) :
        /\ TablaFuncionarios[i].FunCod = cod
        /\ <<corridas, TablaFuncionarios[i].FunDirEmail>> \in entregados

\* C27: a task is flagged notified (TarNot = 'S') by a run only if a message
\* of that run was delivered to its assignee.
C27_MarcadaSoloSiEntregada ==
    [][ \A t \in 1..Len(tablaTareas) :
            (tablaTareas[t].TarNot # "S" /\ tablaTareas'[t].TarNot = "S") =>
                EntregadoA(tablaTareas[t].SubFunCodTar) ]_vars

\* C28: when a run that found pending tasks returns, every task that was
\* pending for the employees it found is flagged notified.
C28_TodasMarcadasAlTerminar ==
    [][ (pc = "marcar" /\ pc' = "espera") =>
            \A t \in 1..Len(tablaTareas) :
                tablaTareas[t].SubFunCodTar \in idsFuncionarios =>
                    tablaTareas'[t].TarNot = "S" ]_vars

----------------------------------------------------------------------------
(* Claims about the concurrent runs.                                       *)

\* what the run of event i sent, in order
MensajesDe(i) ==
    LET DeLaCorrida(m) == m.origen = i
        filtrados == SelectSeq(enviados, DeLaCorrida)
    IN  [k \in 1..Len(filtrados) |-> filtrados[k].mensaje]

\* the run of event i is a finished crm-check-me of a person
ReporteMensualTerminado(i) ==
    /\ invocaciones[i].paso = "fin"
    /\ invocaciones[i].evento.bot_id = ""
    /\ ComandoNombrado(invocaciones[i].evento.text) = "CheckMeCommand"

\* the identity of the caller of event i could not be fetched, or the table
\* of employees was read and holds no active record for the caller
SinIdentidad(i) ==
    \/ ~invocaciones[i].usersInfoOk
    \/ /\ invocaciones[i].consultaOk
       /\ ~\E f \in 1..Len(TablaFuncionarios) :
              /\ TablaFuncionarios[f].FunEst = "A"
              /\ TablaFuncionarios[f].FunDirEmail =
                     IF CorreoDePerfil(invocaciones[i].evento.user) # ""
                     THEN CorreoDePerfil(invocaciones[i].evento.user)
                     ELSE invocaciones[i].evento.user

\* the messages of a whole report: the header, then weeks, then the summary
EsReporteCompleto(mensajes) ==
    /\ Len(mensajes) >= 3
    /\ mensajes[1].tipo = "inicio"
    /\ mensajes[Len(mensajes)].tipo = "resumen"
    /\ \A k \in 2..(Len(mensajes) - 1) : mensajes[k].tipo = "semana"

\* C21: when the identity of the caller of crm-check-me cannot be fetched or
\* no active employee record exists for them, the caller gets exactly one
\* error message and no section of the report, no time-log query is made,
\* and the command of another caller running at the same time still sends
\* the report it sends when it runs alone.
C21_SoloUnErrorSinIdentidad ==
    \A i \in 1..Len(invocaciones) :
        (ReporteMensualTerminado(i) /\ SinIdentidad(i)) =>
            /\ Len(MensajesDe(i)) = 1
            /\ MensajesDe(i)[1].tipo = "error"
            /\ invocaciones[i].consultas = 0
            /\ \A j \in 1..Len(invocaciones) :
                   (ReporteMensualTerminado(j) /\ invocaciones[j].evento.user = "ana"
                    /\ invocaciones[j].usersInfoOk /\ invocaciones[j].error = "") =>
                       LET solo == PrepararReporteMensual("ana", TRUE, TRUE, TRUE, TRUE)
                       IN  /\ EsReporteCompleto(MensajesDe(j))
                           /\ MensajesDe(j)[1].datos = solo.encabezado
                           /\ Len(MensajesDe(j)) = Len(solo.grupos) + 2
                           /\ \A k \in 1..Len(solo.grupos) :
                                  MensajesDe(j)[k + 1].datos =
                                      MensajeDeSemana(solo.grupos, k).datos
                           /\ invocaciones[j].consultas = solo.consultas

\* two runs took turns: the error of a caller without identity came between
\* two messages of the report of ana, and both runs are over
C21_Witness ==
    \E i, j \in 1..Len(invocaciones) :
        /\ ReporteMensualTerminado(i) /\ SinIdentidad(i)
        /\ ReporteMensualTerminado(j) /\ EsReporteCompleto(MensajesDe(j))
        /\ \E p, q, r \in 1..Len(enviados) :
               /\ p < q /\ q < r
               /\ enviados[p].origen = j /\ enviados[q].origen = i
               /\ enviados[r].origen = j

\* C23: every message sent back through say carries thread_ts = the ts of
\* the event whose run sent it and reply_broadcast = false, also when the
\* runs of several events take turns.
C23_RespuestaEnElHiloDelEvento ==
    \A k \in 1..Len(enviados) :
        /\ enviados[k].mensaje.thread_ts = invocaciones[enviados[k].origen].evento.ts
        /\ enviados[k].mensaje.reply_broadcast = FALSE

\* the messages of two reports are interleaved, the second event being the
\* last one received
C23_Witness ==
    \E p, q, r \in 1..Len(enviados) :
        /\ p < q /\ q < r
        /\ enviados[p].origen = 1 /\ enviados[q].origen = 2 /\ enviados[r].origen = 1
        /\ enviados[q].mensaje.tipo = "semana"
        /\ enviados[r].mensaje.tipo = "resumen"
        /\ enviados[p].mensaje.thread_ts # enviados[q].mensaje.thread_ts

====
